---- MODULE Spec2Model ----
(***************************************************************************)
(* A model of the label-studio-examples notebooks.  Each notebook is a     *)
(* kernel that runs its cells against external services (an HTTP server,   *)
(* a Label Studio server, an LLM).  The variable nb names the notebook a   *)
(* behaviour is about; every notebook has its own specification.           *)
(*                                                                         *)
(*   cs     chatbot-prompter/Customer Support Classification.ipynb         *)
(*   movie  unnamed/part_002 (Re-writing Movies Scripts)                   *)
(*   sdk    unnamed/part_000 (Intro to Programmatic Actions -- SDK)        *)
(*   ner    chatbot-prompter/README.md (structured outputs, NER section)   *)
(***************************************************************************)
EXTENDS Integers, Sequences, FiniteSets, TLC

VARIABLES
    nb,                     \* the notebook this kernel runs
    pc,                     \* the next cell to run
    run,                    \* "running" | "failed" | "done": the state of the run
    raised,                 \* the exception that ended the run ("none" if none)
    runNo,                  \* 1 for the first run of the notebook, 2 after a kernel restart
    stdout,                 \* the messages the cells printed, in order
    remote,                 \* what the data URL serves
    disk,                   \* the local file the notebook downloads to and reads from
    server,                 \* the Label Studio server: a sequence of projects
    project,                \* the project handle bound in the kernel: an index into server
    response,               \* Customer Support: the last HTTP response
    transformed_dialogues,  \* Customer Support: the list built by the transformation cell
    unique_intents,         \* Customer Support: the set of intents
    sorted_unique_intents,  \* Customer Support: the sorted list of intents
    firstRun,               \* Customer Support: what run 1 produced, kept across the restart
    bound,                  \* the names bound in the kernel's namespace
    parsed_lines,           \* movie scripts: the dict parse_movie_lines returned
    movie_conversations,    \* movie scripts: the dict create_conversations returned
    pid,                    \* SDK intro: the id of the first project (0: none)
    p2id,                   \* SDK intro: the id of the second project (0: none)
    tasks,                  \* SDK intro: the tasks the last ls.tasks.list returned
    log,                    \* SDK intro: the cells run so far, each with the exception it ended in
    wentBack,               \* SDK intro: the user has gone back to re-run the chaining cell
    ner_completion,         \* structured outputs: the message the NER completion returned
    json_data,              \* structured outputs: the document the offset correction works on
    classes,                \* structured outputs: the classes bound in the kernel, by name
    completions,            \* structured outputs: the content each section's request returned
    api_requests,           \* structured outputs: the response_format of every request made
    vectordb,               \* QA system: the entries of the persisted vector database
    chatbot,                \* QA system: the chatbot process and the index it has loaded
    qa_turns,               \* QA system: the QA operations that have completed, in order
    extraction,             \* QA system: the last run of extract_good_examples
    config_ini,             \* model monitoring: the settings of config.ini
    scraped                 \* model monitoring: the list scrape() returned

vars == <<nb, pc, run, raised, runNo, stdout, remote, disk, server, project, response,
          transformed_dialogues, unique_intents, sorted_unique_intents, firstRun, bound,
          parsed_lines, movie_conversations, pid, p2id, tasks, log, wentBack,
          ner_completion, json_data, classes, completions, api_requests,
          vectordb, chatbot, qa_turns, extraction, config_ini, scraped>>

\* The variables of one notebook alone, and those a notebook leaves alone.
csVars == <<response, transformed_dialogues, unique_intents, sorted_unique_intents, firstRun>>
movieVars == <<parsed_lines, movie_conversations>>
sdkVars == <<pid, p2id, tasks, log, wentBack>>
nerVars == <<ner_completion, json_data>>
schemaVars == <<classes, completions, api_requests>>
qaVars == <<vectordb, chatbot, qa_turns, extraction>>
monitorVars == <<config_ini, scraped>>
notCsVars == <<movieVars, sdkVars, nerVars, schemaVars, qaVars, monitorVars>>
notMovieVars == <<csVars, sdkVars, nerVars, schemaVars, qaVars, monitorVars>>
notSdkVars == <<csVars, movieVars, nerVars, schemaVars, qaVars, monitorVars, runNo, remote, disk, project>>
notNerVars == <<csVars, movieVars, sdkVars, schemaVars, qaVars, monitorVars, runNo, remote, server, project>>
notSchemaVars == <<csVars, movieVars, sdkVars, nerVars, qaVars, monitorVars, runNo, remote, disk, server, project>>
notQaVars == <<csVars, movieVars, sdkVars, nerVars, schemaVars, monitorVars, runNo, remote,
               project, bound, stdout>>
notMonitorVars == <<csVars, movieVars, nerVars, schemaVars, qaVars, pid, p2id, tasks, wentBack,
                    runNo, disk, project, bound, stdout>>

\* ------------------------------------------------------------------ bounds

\* The longest dialogues.jsonl, in lines.
MaxLines == 2
\* The longest dialogue, in turns.
MaxTurns == 2
\* The longest movie_lines.txt, in lines.
MaxMovieLines == 2
\* The longest movie_conversations.txt, in lines.
MaxConversations == 2

\* ----------------------------------------------------------------- helpers

\* All sequences over S of length at most n.
SeqsUpTo(S, n) == UNION {[1..k -> S] : k \in 0..n}

\* The orders in which a Python set may be iterated: every permutation of S.
Orders(S) == {f \in [1..Cardinality(S) -> S] : \A i, j \in 1..Cardinality(S) : i # j => f[i] # f[j]}

\* The elements of a sequence.
Range(s) == {s[i] : i \in 1..Len(s)}

\* A file that does not exist, and a file holding the given lines.
NoFile == [exists |-> FALSE, lines |-> <<>>]
FileOf(lines) == [exists |-> TRUE, lines |-> lines]

\* No completion has been requested, and no document has been parsed.
NoDocument == [data |-> [text |-> <<>>], predictions |-> <<>>]
NoCompletion == [refusal |-> FALSE, content |-> NoDocument]

\* A name no class is bound to, and the kernel before any schema cell has run.
Unbound == [kind |-> "unbound"]
NoClasses == [Label |-> Unbound, ResultItem |-> Unbound, Prediction |-> Unbound, Data |-> Unbound,
              EntityType |-> Unbound, Summarization |-> Unbound, Classification |-> Unbound,
              NamedEntities |-> Unbound]
NoCompletions == [Summarization |-> NoDocument, Classification |-> NoDocument,
                  NamedEntities |-> NoDocument]

\* No chatbot process has been started, and extract_good_examples has not run.
NoChatbot == [running |-> FALSE, process |-> 0, index |-> <<>>]
NoExtraction == [done |-> FALSE, before |-> <<>>, file |-> NoFile]

\* No config.ini has been read.
NoConfig == [sample_by_date |-> FALSE]

\* ------------------------------------------------ the Label Studio server

\* start_project: a new project is appended; its handle is its index.
NewProject(title, label_config) == [title |-> title, label_config |-> label_config, tasks |-> <<>>]

\* Mutant: the tasks go to the project with the hard-coded id 1.
ImportIntoFirst(srv, p, items) == [srv EXCEPT ![1].tasks = @ \o items]

\* import_tasks: the tasks are appended to the project, in the order given.
ImportInto(srv, p, items) == [srv EXCEPT ![p].tasks = @ \o items]

\* ------------------------------------------------- exceptions and the run

\* An exception propagates out of the cell: the run stops at that cell.
Raise(exc) ==
    /\ run' = "failed"
    /\ raised' = exc
    /\ pc' = pc

\* The cell ends normally and the next cell is up.
Goto(next) ==
    /\ run' = "running"
    /\ raised' = raised
    /\ pc' = next

\* ================================================================
\* Customer Support Classification.ipynb
\* ================================================================

\* The intents of the dataset, in ascending (code point) order.
IntentOrder == <<"AddDependent", "CancelPlan">>

\* Python's < on the intent strings.
StrLess(a, b) ==
    LET ia == CHOOSE i \in 1..Len(IntentOrder) : IntentOrder[i] = a
        ib == CHOOSE i \in 1..Len(IntentOrder) : IntentOrder[i] = b
    IN  ia < ib

\* The turns a dialogue is made of: a customer turn with two intents (not in
\* ascending order) and an agent turn with no 'intents' field.
Turns ==
    { [speaker_role |-> "Customer", utterance |-> "u1", intents |-> <<"CancelPlan", "AddDependent">>],
      [speaker_role |-> "Agent", utterance |-> "u2"] }

\* A line of dialogues.jsonl: a JSON object with its turns, or text that is no JSON.
GoodLine(turns) == [json |-> TRUE, turns |-> turns]
BadLine == [json |-> FALSE, turns |-> <<>>]
Lines == {GoodLine(t) : t \in SeqsUpTo(Turns, MaxTurns)} \cup {BadLine}
Files == SeqsUpTo(Lines, MaxLines)

\* The index of the first line json.loads rejects, 0 when it accepts all.
FirstBad(lines) ==
    IF \E i \in 1..Len(lines) : ~lines[i].json
    THEN CHOOSE i \in 1..Len(lines) : ~lines[i].json /\ \A j \in 1..(i - 1) : lines[j].json
    ELSE 0

\* The lines the loop gets through before json.loads raises.
Processed(lines) == IF FirstBad(lines) = 0 THEN lines ELSE SubSeq(lines, 1, FirstBad(lines) - 1)

\* json.loads(line) raises on this line.
Malformed(lines) == FirstBad(lines) # 0

\* Mutant: each turn's record is put in front of the list.
RECURSIVE TransformTurnsPrepend(_, _)
TransformTurnsPrepend(turns, dialogue) ==
    IF turns = <<>> THEN dialogue
    ELSE TransformTurnsPrepend(Tail(turns),
                               <<[author |-> Head(turns).speaker_role,
                                  text |-> Head(turns).utterance]>> \o dialogue)

\* The inner loop of the transformation cell: each turn appends one record.
RECURSIVE TransformTurns(_, _)
TransformTurns(turns, dialogue) ==
    IF turns = <<>> THEN dialogue
    ELSE TransformTurns(Tail(turns),
                        Append(dialogue, [author |-> Head(turns).speaker_role,
                                          text |-> Head(turns).utterance]))

\* The outer loop: each line appends one {'dialogue': [...]} entry; the loop ends
\* at the first line json.loads rejects, with what was appended so far.
RECURSIVE TransformLines(_, _)
TransformLines(lines, out) ==
    IF lines = <<>> \/ ~Head(lines).json THEN out
    ELSE TransformLines(Tail(lines),
                        Append(out, [dialogue |-> TransformTurns(Head(lines).turns, <<>>)]))

\* The intents one turn adds to the set: those of its 'intents' field, if it has one.
RECURSIVE AddIntents(_, _)
AddIntents(intents, set) ==
    IF intents = <<>> THEN set ELSE AddIntents(Tail(intents), set \cup {Head(intents)})

RECURSIVE IntentsOfTurns(_, _)
IntentsOfTurns(turns, set) ==
    IF turns = <<>> THEN set
    ELSE IntentsOfTurns(Tail(turns),
                        IF "intents" \in DOMAIN Head(turns)
                        THEN AddIntents(Head(turns).intents, set)
                        ELSE set)

\* unique_intents after the loop over the lines, which ends at the first line
\* json.loads rejects.
RECURSIVE CollectIntents(_, _)
CollectIntents(lines, set) ==
    IF lines = <<>> \/ ~Head(lines).json THEN set
    ELSE CollectIntents(Tail(lines), IntentsOfTurns(Head(lines).turns, set))

\* Mutant: the comparison of the sort is the wrong way round.
RECURSIVE InsertDescending(_, _)
InsertDescending(x, sortedList) ==
    IF sortedList = <<>> THEN <<x>>
    ELSE IF StrLess(Head(sortedList), x) THEN <<x>> \o sortedList
    ELSE <<Head(sortedList)>> \o InsertDescending(x, Tail(sortedList))

\* sorted(): the list in ascending order (an insertion sort; the order of equal
\* elements does not show, the elements of a set being distinct).
RECURSIVE Insert(_, _)
Insert(x, sortedList) ==
    IF sortedList = <<>> THEN <<x>>
    ELSE IF StrLess(x, Head(sortedList)) THEN <<x>> \o sortedList
    ELSE <<Head(sortedList)>> \o Insert(x, Tail(sortedList))

\* Mutant: the list is used as the set gave it, unsorted.
SortedListOmitted(list) == list

RECURSIVE SortedList(_)
SortedList(list) == IF list = <<>> THEN <<>> ELSE Insert(Head(list), SortedList(Tail(list)))

\* One line of the label config.
XmlLine(tag, name, value) == [tag |-> tag, name |-> name, value |-> value]

\* choices_xml: one Choice line per intent of the list, joined by newlines (the
\* join of an empty list is the empty string: one empty line in the config).
RECURSIVE ChoiceLines(_)
ChoiceLines(intents) ==
    IF intents = <<>> THEN <<>>
    ELSE <<XmlLine("Choice", "", Head(intents))>> \o ChoiceLines(Tail(intents))

\* Mutant: the first intent gets no Choice line.
ChoicesXmlSkipFirst(intents) == IF Len(intents) <= 1 THEN <<XmlLine("", "", "")>> ELSE ChoiceLines(Tail(intents))

ChoicesXml(intents) == IF intents = <<>> THEN <<XmlLine("", "", "")>> ELSE ChoiceLines(intents)

\* The f-string passed as label_config, line by line.
CsLabelConfig(choices_xml) ==
    << XmlLine("View", "", ""),
       XmlLine("Style", "", ""),
       XmlLine("Paragraphs", "chat", "$dialogue"),
       XmlLine("Header", "", "User prompt:"),
       XmlLine("View", "prompt", ""),
       XmlLine("TextArea", "prompt", ""),
       XmlLine("/View", "", ""),
       XmlLine("Header", "", "Bot answer:"),
       XmlLine("TextArea", "response", ""),
       XmlLine("Choices", "response2", "") >>
    \o choices_xml
    \o << XmlLine("/Choices", "", ""), XmlLine("/View", "", "") >>

\* What a print() adds to the output.
Printed(text, arg) == [text |-> text, arg |-> arg]

\* The kernel's variables before any cell has run.
NoResponse == [status_code |-> 0, content |-> <<>>]
NoFirstRun == [done |-> FALSE, file |-> NoFile, transformed_dialogues |-> <<>>, label_config |-> <<>>]

FreshKernel ==
    /\ bound' = {}
    /\ project' = 0
    /\ response' = NoResponse
    /\ transformed_dialogues' = <<>>
    /\ unique_intents' = {}
    /\ sorted_unique_intents' = <<>>

InitCS ==
    /\ nb = "cs"
    /\ pc = "connect"
    /\ run = "running"
    /\ raised = "none"
    /\ runNo = 1
    /\ stdout = <<>>
    /\ remote \in Files
    /\ disk = NoFile
    /\ server = <<>>
    /\ project = 0
    /\ response = NoResponse
    /\ transformed_dialogues = <<>>
    /\ unique_intents = {}
    /\ sorted_unique_intents = <<>>
    /\ firstRun = NoFirstRun
    /\ bound = {}
    /\ parsed_lines = <<>>
    /\ movie_conversations = <<>>
    /\ pid = 0
    /\ p2id = 0
    /\ tasks = <<>>
    /\ log = <<>>
    /\ wentBack = FALSE
    /\ ner_completion = NoCompletion
    /\ json_data = NoDocument
    /\ classes = NoClasses
    /\ completions = NoCompletions
    /\ api_requests = <<>>
    /\ vectordb = <<>>
    /\ chatbot = NoChatbot
    /\ qa_turns = <<>>
    /\ extraction = NoExtraction
    /\ config_ini = NoConfig
    /\ scraped = <<>>

\* A cell of the Customer Support notebook is up.
CsAt(cell) == nb = "cs" /\ run = "running" /\ pc = cell

\* ls = Client(url, api_key); ls.check_connection()
CsConnect ==
    /\ CsAt("connect")
    /\ bound' = bound \cup {"ls"}
    /\ \/ Goto("download")
       \/ Raise("ConnectionError")
    /\ UNCHANGED <<nb, runNo, stdout, remote, disk, server, project, response,
                   transformed_dialogues, unique_intents, sorted_unique_intents, firstRun, notCsVars>>

\* Mutant: the body is written to dialogues.jsonl whatever the status.
CsDownloadUnchecked(status_code) ==
    /\ response' = [status_code |-> status_code,
                    content |-> IF status_code = 200 THEN remote ELSE <<>>]
    /\ bound' = bound \cup {"requests", "file_url", "input_file_path", "response"}
    /\ disk' = FileOf(response'.content)
    /\ stdout' = Append(stdout, Printed("Failed to download the file. Status code:", status_code))
    /\ Goto("transform")

\* Mutant: response.raise_for_status() is called instead of testing the code.
CsDownloadRaiseForStatus(status_code) ==
    /\ response' = [status_code |-> status_code,
                    content |-> IF status_code = 200 THEN remote ELSE <<>>]
    /\ bound' = bound \cup {"requests", "file_url", "input_file_path", "response"}
    /\ stdout' = stdout
    /\ IF status_code = 200
       THEN /\ disk' = FileOf(response'.content)
            /\ Goto("transform")
       ELSE /\ disk' = disk
            /\ Raise("HTTPError")

\* response = requests.get(file_url), with the given status code: the body is
\* written to dialogues.jsonl on 200, and a message is printed otherwise.
CsDownloadStatus(status_code) ==
    /\ response' = [status_code |-> status_code,
                    content |-> IF status_code = 200 THEN remote ELSE <<>>]
    /\ bound' = bound \cup {"requests", "file_url", "input_file_path", "response"}
    /\ IF status_code = 200
       THEN /\ disk' = FileOf(response'.content)
            /\ stdout' = stdout
       ELSE /\ disk' = disk
            /\ stdout' = Append(stdout, Printed("Failed to download the file. Status code:", status_code))
    /\ Goto("transform")

\* The download cell: requests.get raises when there is no answer at all.
CsDownload ==
    /\ CsAt("download")
    /\ \/ \E status_code \in {200, 404} : CsDownloadStatus(status_code)
       \/ /\ Raise("ConnectionError")
          /\ bound' = bound \cup {"requests", "file_url", "input_file_path"}
          /\ UNCHANGED <<response, disk, stdout>>
    /\ UNCHANGED <<nb, runNo, remote, server, project,
                   transformed_dialogues, unique_intents, sorted_unique_intents, firstRun, notCsVars>>

\* The transformation cell.
CsTransform ==
    /\ CsAt("transform")
    /\ bound' = bound \cup {"json", "transformed_dialogues"}
    /\ IF ~disk.exists
       THEN /\ transformed_dialogues' = <<>>
            /\ stdout' = stdout
            /\ Raise("FileNotFoundError")
       ELSE /\ transformed_dialogues' = TransformLines(disk.lines, <<>>)
            /\ IF Malformed(disk.lines)
               THEN /\ stdout' = stdout
                    /\ Raise("JSONDecodeError")
               ELSE /\ stdout' = Append(stdout, Printed("Transformed dialogues:", Len(transformed_dialogues')))
                    /\ Goto("intents")
    /\ UNCHANGED <<nb, runNo, remote, disk, server, project, response,
                   unique_intents, sorted_unique_intents, firstRun, notCsVars>>

\* The intent cell: the set is filled from the file, and list(unique_intents),
\* which has the set's iteration order, is sorted.
CsIntents ==
    /\ CsAt("intents")
    /\ IF ~disk.exists
       THEN /\ unique_intents' = {}
            /\ UNCHANGED <<sorted_unique_intents, stdout>>
            /\ bound' = bound \cup {"unique_intents"}
            /\ Raise("FileNotFoundError")
       ELSE /\ unique_intents' = CollectIntents(disk.lines, {})
            /\ IF Malformed(disk.lines)
               THEN /\ UNCHANGED <<sorted_unique_intents, stdout>>
                    /\ bound' = bound \cup {"unique_intents"}
                    /\ Raise("JSONDecodeError")
               ELSE /\ \E list \in Orders(unique_intents') :
                          sorted_unique_intents' = SortedList(list)
                    /\ bound' = bound \cup {"unique_intents", "sorted_unique_intents"}
                    /\ stdout' = Append(stdout, Printed("Possible intents in dialogues:", Len(sorted_unique_intents')))
                    /\ Goto("print_intents")
    /\ UNCHANGED <<nb, runNo, remote, disk, server, project, response,
                   transformed_dialogues, firstRun, notCsVars>>

\* print(sorted_unique_intents)
CsPrintIntents ==
    /\ CsAt("print_intents")
    /\ stdout' = Append(stdout, Printed("sorted_unique_intents", Len(sorted_unique_intents)))
    /\ Goto("start_project")
    /\ UNCHANGED <<nb, runNo, remote, disk, server, project, response, transformed_dialogues,
                   unique_intents, sorted_unique_intents, firstRun, bound, notCsVars>>

\* choices_xml is built and ls.start_project creates the project, or raises.
CsStartProject ==
    /\ CsAt("start_project")
    /\ \/ /\ server' = Append(server, NewProject("Finance Support Chats",
                                                CsLabelConfig(ChoicesXml(sorted_unique_intents))))
          /\ project' = Len(server')
          /\ bound' = bound \cup {"choices_xml", "project"}
          /\ Goto("import_tasks")
       \/ /\ UNCHANGED <<server, project>>
          /\ bound' = bound \cup {"choices_xml"}
          /\ Raise("ApiError")
    /\ UNCHANGED <<nb, runNo, stdout, remote, disk, response, transformed_dialogues,
                   unique_intents, sorted_unique_intents, firstRun, notCsVars>>

\* project.import_tasks(transformed_dialogues): the last cell of the notebook.
CsImportTasks ==
    /\ CsAt("import_tasks")
    /\ \/ /\ server' = ImportInto(server, project, transformed_dialogues)
          /\ run' = "done"
          /\ pc' = "end"
          /\ raised' = raised
       \/ /\ server' = server
          /\ Raise("ApiError")
    /\ UNCHANGED <<nb, runNo, stdout, remote, disk, project, response, transformed_dialogues,
                   unique_intents, sorted_unique_intents, firstRun, bound, notCsVars>>

\* The kernel is restarted and the notebook run again: the file on disk and the
\* server keep what the first run left.
CsRestart ==
    /\ nb = "cs"
    /\ run \in {"failed", "done"}
    /\ runNo = 1
    /\ runNo' = 2
    /\ firstRun' = [done |-> run = "done",
                    file |-> disk,
                    transformed_dialogues |-> transformed_dialogues,
                    label_config |-> IF project = 0 THEN <<>> ELSE server[project].label_config]
    /\ FreshKernel
    /\ pc' = "connect"
    /\ run' = "running"
    /\ raised' = "none"
    /\ stdout' = <<>>
    /\ UNCHANGED <<nb, remote, disk, server, notCsVars>>

NextCS ==
    \/ CsConnect
    \/ CsDownload
    \/ CsTransform
    \/ CsIntents
    \/ CsPrintIntents
    \/ CsStartProject
    \/ CsImportTasks
    \/ CsRestart

SpecCS == InitCS /\ [][NextCS]_vars

\* ---------------------------------------------- Customer Support: claims

\* The cells of the notebook in their order, and "the given cell has run to its end".
CsCells == <<"connect", "download", "transform", "intents", "print_intents",
             "start_project", "import_tasks", "end">>
CsCellNo(cell) == CHOOSE i \in 1..Len(CsCells) : CsCells[i] = cell
CsCompleted(cell) == nb = "cs" /\ CsCellNo(pc) > CsCellNo(cell)

\* C3: once the transformation cell has run to its end, transformed_dialogues
\* has one entry per line of dialogues.jsonl, in file order, and the entry's
\* 'dialogue' has one {'author': speaker_role, 'text': utterance} record per turn
\* of that line's dialogue, in turn order.
C3_OneEntryPerLine ==
    CsCompleted("transform") =>
        /\ Len(transformed_dialogues) = Len(disk.lines)
        /\ \A i \in 1..Len(disk.lines) :
              /\ DOMAIN transformed_dialogues[i] = {"dialogue"}
              /\ Len(transformed_dialogues[i].dialogue) = Len(disk.lines[i].turns)
              /\ \A j \in 1..Len(disk.lines[i].turns) :
                    /\ DOMAIN transformed_dialogues[i].dialogue[j] = {"author", "text"}
                    /\ transformed_dialogues[i].dialogue[j].author = disk.lines[i].turns[j].speaker_role
                    /\ transformed_dialogues[i].dialogue[j].text = disk.lines[i].turns[j].utterance

\* C3's case: a file of two different lines, one of them with two different turns,
\* has been transformed.
C3_Witness ==
    /\ CsCompleted("transform")
    /\ Len(disk.lines) = 2
    /\ disk.lines[1] # disk.lines[2]
    /\ Len(disk.lines[1].turns) = 2
    /\ disk.lines[1].turns[1] # disk.lines[1].turns[2]
    /\ Len(transformed_dialogues) = 2

\* The intents that occur in the 'intents' field of some turn of some dialogue.
IntentsInFile(lines) ==
    {x \in Range(IntentOrder) :
        \E i \in 1..Len(lines) : \E j \in 1..Len(lines[i].turns) :
            /\ "intents" \in DOMAIN lines[i].turns[j]
            /\ \E k \in 1..Len(lines[i].turns[j].intents) : lines[i].turns[j].intents[k] = x}

\* C4: once the intent cell has run to its end, sorted_unique_intents holds
\* exactly the intents that occur in an 'intents' field of the file, each once,
\* in ascending order; and the intent cell never raises on a file the
\* transformation cell accepted, turns without an 'intents' field included.
C4_SortedUniqueIntents ==
    /\ CsCompleted("intents") =>
          /\ Range(sorted_unique_intents) = IntentsInFile(disk.lines)
          /\ \A i, j \in 1..Len(sorted_unique_intents) :
                i < j => StrLess(sorted_unique_intents[i], sorted_unique_intents[j])
    /\ ~(nb = "cs" /\ pc = "intents" /\ run = "failed")

\* C4's case: a file with a turn that has no 'intents' field and a turn with two
\* intents has been through the intent cell.
C4_Witness ==
    /\ CsCompleted("intents")
    /\ Len(sorted_unique_intents) = 2
    /\ \E i \in 1..Len(disk.lines) : \E j \in 1..Len(disk.lines[i].turns) :
          "intents" \notin DOMAIN disk.lines[i].turns[j]

\* The lines of a label config from the opening line of the Choices tag of the
\* given name to the first closing line after it (both excluded).
ChoicesBlock(config, name) ==
    LET opens == {i \in 1..Len(config) : config[i].tag = "Choices" /\ config[i].name = name}
        open == CHOOSE i \in opens : \A k \in opens : i <= k
        closes == {i \in (open + 1)..Len(config) : config[i].tag = "/Choices"}
        close == CHOOSE i \in closes : \A k \in closes : i <= k
    IN  IF opens = {} \/ closes = {} THEN <<>> ELSE SubSeq(config, open + 1, close - 1)

IsChoice(line) == line.tag = "Choice"

\* C5: the label config of the project start_project created holds, inside the
\* Choices tag 'response2', one Choice element per intent of
\* sorted_unique_intents, in the same order, and no Choice element elsewhere.
C5_ChoicePerIntent ==
    CsCompleted("start_project") =>
        LET config == server[project].label_config
            inside == SelectSeq(ChoicesBlock(config, "response2"), IsChoice)
        IN  /\ Len(inside) = Len(sorted_unique_intents)
            /\ \A i \in 1..Len(inside) : inside[i].value = sorted_unique_intents[i]
            /\ Len(SelectSeq(config, IsChoice)) = Len(inside)

\* C5's case: a project has been created from a list of two intents.
C5_Witness ==
    /\ CsCompleted("start_project")
    /\ Len(sorted_unique_intents) = 2
    /\ Len(SelectSeq(server[project].label_config, IsChoice)) = 2

\* C6: two complete runs over the same dialogues.jsonl produce the same
\* transformed_dialogues and the same label config, whatever order the set of
\* intents was iterated in.
C6_SameOutputForSameFile ==
    (nb = "cs" /\ runNo = 2 /\ run = "done" /\ firstRun.done /\ firstRun.file = disk) =>
        /\ transformed_dialogues = firstRun.transformed_dialogues
        /\ server[project].label_config = firstRun.label_config

\* C6's case: a second complete run over a file with two intents and two lines.
C6_Witness ==
    /\ nb = "cs" /\ runNo = 2 /\ run = "done" /\ firstRun.done /\ firstRun.file = disk
    /\ Len(sorted_unique_intents) = 2
    /\ Len(transformed_dialogues) = 2

\* The file the Customer Support run found on disk when it began: none in the
\* first run, and what the first run left in the second.
CsFileAtStart == IF runNo = 1 THEN NoFile ELSE firstRun.file

\* The download of this run was answered with a status other than 200.
CsDownloadRefused == nb = "cs" /\ response.status_code \notin {0, 200}

\* C22: when the download is answered with a status other than 200 the cell
\* ends without an exception, having printed the message and left
\* dialogues.jsonl as it was; the transformation cell then fails on opening
\* the file when there is none, and otherwise transforms the file the earlier
\* run left.
C22_RefusedDownload ==
    CsDownloadRefused =>
        /\ CsCompleted("download")
        /\ disk = CsFileAtStart
        /\ stdout[1] = Printed("Failed to download the file. Status code:", response.status_code)
        /\ pc = "transform" =>
              /\ run = "running" => raised = "none"
              /\ run = "failed" =>
                    /\ raised = "FileNotFoundError" <=> ~CsFileAtStart.exists
                    /\ raised = "JSONDecodeError" <=>
                          (CsFileAtStart.exists /\ Malformed(CsFileAtStart.lines))
        /\ CsCompleted("transform") =>
              /\ CsFileAtStart.exists
              /\ ~Malformed(CsFileAtStart.lines)
              /\ transformed_dialogues = TransformLines(CsFileAtStart.lines, <<>>)

\* C22's case: the second run's download is refused and its transformation cell
\* has transformed the two lines the first run saved.
C22_Witness ==
    /\ CsDownloadRefused
    /\ CsCompleted("transform")
    /\ runNo = 2
    /\ Len(firstRun.file.lines) = 2
    /\ Len(transformed_dialogues) = 2
    /\ stdout[1].arg = 404

\* ================================================================
\* Re-writing Movies Scripts (unnamed/part_002)
\* ================================================================

\* A line of the corpus is a sequence of tokens: words, and the separator
\* " +++$+++ ".  The fourth field of a conversation line is one token, the list
\* of line ids as Python prints it, quoted with ' (or text that is no list).
Word(s) == [k |-> "word", s |-> s, ids |-> <<>>]
Sep == [k |-> "sep", s |-> " +++$+++ ", ids |-> <<>>]
IdList(quote, ids) == [k |-> "list", s |-> quote, ids |-> ids]
NoList == [k |-> "word", s |-> "[", ids |-> <<>>]

\* line.strip(): the line's leading and trailing whitespace goes, and with it the
\* outer space of a separator at either end, which then no longer is one.
Strip(line) ==
    [i \in 1..Len(line) |->
        IF line[i].k = "sep" /\ i = 1 /\ i = Len(line) THEN Word("+++$+++")
        ELSE IF line[i].k = "sep" /\ i = 1 THEN Word("+++$+++ ")
        ELSE IF line[i].k = "sep" /\ i = Len(line) THEN Word(" +++$+++")
        ELSE line[i]]

\* str.split(" +++$+++ "): the parts between the separators, left to right; parts
\* holds the parts that are complete and part the one being read.
RECURSIVE Split(_, _, _)
Split(line, parts, part) ==
    IF line = <<>> THEN Append(parts, part)
    ELSE IF Head(line).k = "sep" THEN Split(Tail(line), Append(parts, part), <<>>)
    ELSE Split(Tail(line), parts, Append(part, Head(line)))

\* line.strip().split(" +++$+++ ")
Parts(line) == Split(Strip(line), <<>>, <<>>)

\* The string a part is: its tokens' text, concatenated.
RECURSIVE PartText(_)
PartText(part) == IF part = <<>> THEN "" ELSE Head(part).s \o PartText(Tail(part))

\* Mutant: a line id that is in line_dict already is not set again.
RECURSIVE ParseMovieLinesKeepFirst(_, _)
ParseMovieLinesKeepFirst(lines_content, line_dict) ==
    IF lines_content = <<>> THEN line_dict
    ELSE LET parts == Parts(Head(lines_content))
             line_id == PartText(parts[1])
             entry == [author |-> PartText(parts[4]), text |-> PartText(parts[5])]
         IN  ParseMovieLinesKeepFirst(Tail(lines_content),
                             IF Len(parts) = 5 /\ line_id \notin DOMAIN line_dict
                             THEN [id \in DOMAIN line_dict \cup {line_id} |->
                                      IF id = line_id THEN entry ELSE line_dict[id]]
                             ELSE line_dict)

\* The loop of parse_movie_lines: a line of 5 parts sets line_dict[line_id].
RECURSIVE ParseMovieLines(_, _)
ParseMovieLines(lines_content, line_dict) ==
    IF lines_content = <<>> THEN line_dict
    ELSE LET parts == Parts(Head(lines_content))
             line_id == PartText(parts[1])
             entry == [author |-> PartText(parts[4]), text |-> PartText(parts[5])]
         IN  ParseMovieLines(Tail(lines_content),
                             IF Len(parts) = 5
                             THEN [id \in DOMAIN line_dict \cup {line_id} |->
                                      IF id = line_id THEN entry ELSE line_dict[id]]
                             ELSE line_dict)

\* line_ids_str.replace("'", '"')
ReplaceQuotes(part) ==
    [i \in 1..Len(part) |-> IF part[i].k = "list" /\ part[i].s = "'" THEN IdList("\"", part[i].ids) ELSE part[i]]

\* json.loads accepts a list of strings in double quotes, and raises on the rest.
JsonLoadsOk(part) == Len(part) = 1 /\ part[1].k = "list" /\ part[1].s = "\""
JsonLoads(part) == part[1].ids

\* Mutant: a line id that is not among the parsed lines ends the dialogue.
RECURSIVE DialogueUntilAbsent(_, _)
DialogueUntilAbsent(line_ids, lines) ==
    IF line_ids = <<>> \/ Head(line_ids) \notin DOMAIN lines THEN <<>>
    ELSE <<lines[Head(line_ids)]>> \o DialogueUntilAbsent(Tail(line_ids), lines)

\* [lines[line_id] for line_id in line_ids if line_id in lines]
RECURSIVE Dialogue(_, _)
Dialogue(line_ids, lines) ==
    IF line_ids = <<>> THEN <<>>
    ELSE (IF Head(line_ids) \in DOMAIN lines THEN <<lines[Head(line_ids)]>> ELSE <<>>)
         \o Dialogue(Tail(line_ids), lines)

\* A dict whose order of keys counts: a sequence of entries, one per key, in the
\* order the keys were first set.
HasKey(dict, key) == \E i \in 1..Len(dict) : dict[i].key = key
Lookup(dict, key) == dict[CHOOSE i \in 1..Len(dict) : dict[i].key = key].value

\* movie_conversations[movie_id].append(entry), the key being created when new.
AppendTo(dict, key, entry) ==
    IF HasKey(dict, key)
    THEN [i \in 1..Len(dict) |-> IF dict[i].key = key
                                 THEN [key |-> key, value |-> Append(dict[i].value, entry)]
                                 ELSE dict[i]]
    ELSE Append(dict, [key |-> key, value |-> <<entry>>])

\* A conversation line json.loads raises on: a line of 4 parts whose last is no list.
ConversationRaises(conversation) ==
    LET parts == Parts(conversation)
    IN  Len(parts) = 4 /\ ~JsonLoadsOk(ReplaceQuotes(parts[4]))

\* The loop of create_conversations, up to the first line json.loads raises on.
RECURSIVE CreateConversations(_, _, _)
CreateConversations(conversations_content, lines, dict) ==
    IF conversations_content = <<>> \/ ConversationRaises(Head(conversations_content)) THEN dict
    ELSE LET parts == Parts(Head(conversations_content))
             movie_id == PartText(parts[3])
             line_ids == JsonLoads(ReplaceQuotes(parts[4]))
         IN  CreateConversations(Tail(conversations_content), lines,
                                 IF Len(parts) = 4
                                 THEN AppendTo(dict, movie_id, [dialogue |-> Dialogue(line_ids, lines)])
                                 ELSE dict)

\* The lines movie_lines.txt is made of: two lines of movie m0, a second line
\* with the id of the first, a line whose text is empty and a line whose text
\* holds the separator.
MovieLinePool ==
    { <<Word("L1"), Sep, Word("u0"), Sep, Word("m0"), Sep, Word("BIANCA"), Sep, Word("hi")>>,
      <<Word("L2"), Sep, Word("u2"), Sep, Word("m0"), Sep, Word("CAMERON"), Sep, Word("yo")>>,
      <<Word("L1"), Sep, Word("u0"), Sep, Word("m0"), Sep, Word("BIANCA"), Sep, Word("bye")>>,
      <<Word("L3"), Sep, Word("u0"), Sep, Word("m0"), Sep, Word("BIANCA"), Sep>>,
      <<Word("L3"), Sep, Word("u0"), Sep, Word("m0"), Sep, Word("BIANCA"), Sep, Word("a"), Sep, Word("b")>> }

\* The lines movie_conversations.txt is made of: a conversation of movie m0 and
\* one of movie m1, a conversation whose line is not among the parsed ones, a
\* line of 3 fields and a line whose list json.loads rejects.
ConversationPool ==
    { <<Word("u0"), Sep, Word("u2"), Sep, Word("m0"), Sep, IdList("'", <<"L1", "L2">>)>>,
      <<Word("u0"), Sep, Word("u2"), Sep, Word("m1"), Sep, IdList("'", <<"L2", "L1">>)>>,
      <<Word("u0"), Sep, Word("u2"), Sep, Word("m0"), Sep, IdList("'", <<"L3">>)>>,
      <<Word("u0"), Sep, Word("u2"), Sep, Word("m0")>>,
      <<Word("u0"), Sep, Word("u2"), Sep, Word("m0"), Sep, NoList>> }

\* The corpus the URL serves: the two files of the zip archive.
Corpora ==
    [movie_lines : SeqsUpTo(MovieLinePool, MaxMovieLines),
     movie_conversations : SeqsUpTo(ConversationPool, MaxConversations)]

\* The working directory: the downloaded file ("none", "zip" or "page", the body
\* of an error response) and the files extracted from it.
EmptyDir == [zip |-> "none", extracted |-> FALSE, movie_lines |-> <<>>, movie_conversations |-> <<>>]

InitMovie ==
    /\ nb = "movie"
    /\ pc = "connect"
    /\ run = "running"
    /\ raised = "none"
    /\ runNo = 1
    /\ stdout = <<>>
    /\ remote \in Corpora
    /\ disk = EmptyDir
    /\ server = <<>>
    /\ project = 0
    /\ response = NoResponse
    /\ transformed_dialogues = <<>>
    /\ unique_intents = {}
    /\ sorted_unique_intents = <<>>
    /\ firstRun = NoFirstRun
    /\ bound = {}
    /\ parsed_lines = <<>>
    /\ movie_conversations = <<>>
    /\ pid = 0
    /\ p2id = 0
    /\ tasks = <<>>
    /\ log = <<>>
    /\ wentBack = FALSE
    /\ ner_completion = NoCompletion
    /\ json_data = NoDocument
    /\ classes = NoClasses
    /\ completions = NoCompletions
    /\ api_requests = <<>>
    /\ vectordb = <<>>
    /\ chatbot = NoChatbot
    /\ qa_turns = <<>>
    /\ extraction = NoExtraction
    /\ config_ini = NoConfig
    /\ scraped = <<>>

MvAt(cell) == nb = "movie" /\ run = "running" /\ pc = cell

\* ls = Client(url, api_key); ls.check_connection()
MvConnect ==
    /\ MvAt("connect")
    /\ bound' = bound \cup {"ls"}
    /\ \/ Goto("start_project")
       \/ Raise("ConnectionError")
    /\ UNCHANGED <<nb, runNo, stdout, remote, disk, server, project, movieVars, notMovieVars>>

\* The label config of the movie project: no Choices tag.
MvLabelConfig ==
    << XmlLine("View", "", ""),
       XmlLine("Style", "", ""),
       XmlLine("Paragraphs", "chat", "$dialogue"),
       XmlLine("Header", "", "User prompt:"),
       XmlLine("View", "prompt", ""),
       XmlLine("TextArea", "prompt", ""),
       XmlLine("/View", "", ""),
       XmlLine("Header", "", "Bot answer:"),
       XmlLine("TextArea", "response", ""),
       XmlLine("/View", "", "") >>

\* project = ls.start_project(title='Movie Dialogus', label_config=...)
MvStartProject ==
    /\ MvAt("start_project")
    /\ \/ /\ server' = Append(server, NewProject("Movie Dialogus", MvLabelConfig))
          /\ project' = Len(server')
          /\ bound' = bound \cup {"project"}
          /\ Goto("download")
       \/ /\ UNCHANGED <<server, project, bound>>
          /\ Raise("ApiError")
    /\ UNCHANGED <<nb, runNo, stdout, remote, disk, movieVars, notMovieVars>>

\* download_and_unzip(url) once requests.get has returned a response: the body is
\* written to the zip file whatever the status, and zipfile raises when the body
\* is no archive.
DownloadAndUnzip(status_code) ==
    IF status_code = 200
    THEN /\ disk' = [zip |-> "zip", extracted |-> TRUE,
                     movie_lines |-> remote.movie_lines,
                     movie_conversations |-> remote.movie_conversations]
         /\ Goto("parse")
    ELSE /\ disk' = [disk EXCEPT !.zip = "page"]
         /\ Raise("BadZipFile")

\* The cells that define download_and_unzip and call it on the corpus URL.
MvDownload ==
    /\ MvAt("download")
    /\ bound' = bound \cup {"requests", "os", "zipfile", "re", "json", "download_and_unzip", "url"}
    /\ \/ \E status_code \in {200, 404} : DownloadAndUnzip(status_code)
       \/ /\ Raise("ConnectionError")
          /\ disk' = disk
    /\ UNCHANGED <<nb, runNo, stdout, remote, server, project, movieVars, notMovieVars>>

\* read_file: the lines of an extracted file.
ReadFile(name) == IF name = "movie_lines" THEN disk.movie_lines ELSE disk.movie_conversations

\* json.loads raises on some line of the conversations file.
RECURSIVE SomeConversationRaises(_)
SomeConversationRaises(conversations_content) ==
    /\ conversations_content # <<>>
    /\ \/ ConversationRaises(Head(conversations_content))
       \/ SomeConversationRaises(Tail(conversations_content))

\* The cells that define the parsers and call them: parsed_lines is bound first,
\* and movie_conversations only when create_conversations returns.
MvParse ==
    /\ MvAt("parse")
    /\ parsed_lines' = ParseMovieLines(ReadFile("movie_lines"), <<>>)
    /\ IF SomeConversationRaises(ReadFile("movie_conversations"))
       THEN /\ movie_conversations' = movie_conversations
            /\ bound' = bound \cup {"read_file", "parse_movie_lines", "create_conversations", "parsed_lines"}
            /\ Raise("JSONDecodeError")
       ELSE /\ movie_conversations' = CreateConversations(ReadFile("movie_conversations"), parsed_lines', <<>>)
            /\ bound' = bound \cup {"read_file", "parse_movie_lines", "create_conversations",
                                    "parsed_lines", "movie_conversations"}
            /\ Goto("show_m0")
    /\ UNCHANGED <<nb, runNo, stdout, remote, disk, server, project, notMovieVars>>

\* movie_conversations['m0'], displayed: a KeyError when no conversation is of m0.
MvShowM0 ==
    /\ MvAt("show_m0")
    /\ IF HasKey(movie_conversations, "m0") THEN Goto("show_all") ELSE Raise("KeyError")
    /\ UNCHANGED <<nb, runNo, stdout, remote, disk, server, project, bound, movieVars, notMovieVars>>

\* movie_conversations, displayed.
MvShowAll ==
    /\ MvAt("show_all")
    /\ Goto("import_tasks")
    /\ UNCHANGED <<nb, runNo, stdout, remote, disk, server, project, bound, movieVars, notMovieVars>>

\* Mutant: the conversations of every movie, in the order of the dict.
RECURSIVE AllConversations(_)
AllConversations(dict) == IF dict = <<>> THEN <<>> ELSE Head(dict).value \o AllConversations(Tail(dict))

\* The argument of project.import_tasks.
TasksToImport(dict) == Lookup(dict, "m0")

\* project.import_tasks(movie_conversations['m0']): the last cell of the notebook.
MvImportTasks ==
    /\ MvAt("import_tasks")
    /\ IF ~HasKey(movie_conversations, "m0")
       THEN /\ server' = server
            /\ Raise("KeyError")
       ELSE \/ /\ server' = ImportInto(server, project, TasksToImport(movie_conversations))
               /\ run' = "done"
               /\ pc' = "end"
               /\ raised' = raised
            \/ /\ server' = server
               /\ Raise("ApiError")
    /\ UNCHANGED <<nb, runNo, stdout, remote, disk, project, bound, movieVars, notMovieVars>>

NextMovie ==
    \/ MvConnect
    \/ MvStartProject
    \/ MvDownload
    \/ MvParse
    \/ MvShowM0
    \/ MvShowAll
    \/ MvImportTasks

SpecMovie == InitMovie /\ [][NextMovie]_vars

\* ------------------------------------------------- movie scripts: claims

MvCells == <<"connect", "start_project", "download", "parse", "show_m0", "show_all",
             "import_tasks", "end">>
MvCellNo(cell) == CHOOSE i \in 1..Len(MvCells) : MvCells[i] = cell
MvCompleted(cell) == nb = "movie" /\ MvCellNo(pc) > MvCellNo(cell)

\* The conversation lines with exactly 4 fields, and those of them of one movie.
HasFourFields(conversation) == Len(Parts(conversation)) = 4
FourFieldLines == SelectSeq(disk.movie_conversations, HasFourFields)
MovieOf(conversation) == PartText(Parts(conversation)[3])
LinesOfMovie(movie_id) == SelectSeq(FourFieldLines, LAMBDA c : MovieOf(c) = movie_id)

\* The line ids of a conversation line that are among the parsed lines, in order.
IdsOf(conversation) == Parts(conversation)[4][1].ids
PresentIds(conversation) == SelectSeq(IdsOf(conversation), LAMBDA id : id \in DOMAIN parsed_lines)

\* C7: once create_conversations has returned, the list of every movie id holds
\* one {'dialogue': ...} entry per conversation line of 4 fields of that movie,
\* in file order; an entry's dialogue lists the parsed records of the line's ids
\* that are among the parsed lines, in the order of the ids (an empty dialogue
\* when none is); and the dict has no other key.
C7_EntryPerConversation ==
    MvCompleted("parse") =>
        /\ \A i \in 1..Len(movie_conversations) :
              \E k \in 1..Len(FourFieldLines) : MovieOf(FourFieldLines[k]) = movie_conversations[i].key
        /\ \A k \in 1..Len(FourFieldLines) :
              LET movie_id == MovieOf(FourFieldLines[k])
                  expected == LinesOfMovie(movie_id)
              IN  /\ HasKey(movie_conversations, movie_id)
                  /\ Len(Lookup(movie_conversations, movie_id)) = Len(expected)
                  /\ \A n \in 1..Len(expected) :
                        LET entry == Lookup(movie_conversations, movie_id)[n]
                            ids == PresentIds(expected[n])
                        IN  /\ DOMAIN entry = {"dialogue"}
                            /\ Len(entry.dialogue) = Len(ids)
                            /\ \A j \in 1..Len(ids) : entry.dialogue[j] = parsed_lines[ids[j]]

\* C7's case: two conversations of one movie, one with a line id that is not
\* among the parsed lines and one with an empty dialogue.
C7_Witness ==
    /\ MvCompleted("parse")
    /\ HasKey(movie_conversations, "m0")
    /\ Len(Lookup(movie_conversations, "m0")) = 2
    /\ Len(Lookup(movie_conversations, "m0")[1].dialogue) = 1
    /\ Len(IdsOf(LinesOfMovie("m0")[1])) = 2
    /\ Lookup(movie_conversations, "m0")[2].dialogue = <<>>

\* C8: once the import cell has run, the tasks of the project are exactly the
\* conversations of movie m0, in their order; those of other movies are not
\* among them.
C8_OnlyFirstMovieImported ==
    MvCompleted("import_tasks") =>
        /\ Len(server[project].tasks) = Len(LinesOfMovie("m0"))
        /\ \A n \in 1..Len(server[project].tasks) :
              server[project].tasks[n] = Lookup(movie_conversations, "m0")[n]

\* C8's case: the import has run while the dict also held a conversation of m1.
C8_Witness ==
    /\ MvCompleted("import_tasks")
    /\ HasKey(movie_conversations, "m1")
    /\ Len(server[project].tasks) = 1

\* The lines of movie_lines.txt that split into 5 parts, by their position, and
\* the id of a line.
FiveParts == {i \in 1..Len(disk.movie_lines) : Len(Parts(disk.movie_lines[i])) = 5}
LineId(line) == PartText(Parts(line)[1])

\* The last line of 5 parts with the given id.
LastWith(line_id) ==
    disk.movie_lines[CHOOSE i \in FiveParts :
        /\ LineId(disk.movie_lines[i]) = line_id
        /\ \A k \in FiveParts : LineId(disk.movie_lines[k]) = line_id => k <= i]

\* The line's text field is empty: the line ends with the fourth separator.
EmptyText(line) == Len(line) = 8 /\ line[8].k = "sep"

\* The line's text holds the separator: there is one after the fourth.
SeparatorInText(line) == \E i \in 9..Len(line) : line[i].k = "sep"

\* C23: once parse_movie_lines has returned, parsed_lines has an entry for a
\* line id exactly when some line with that id splits into 5 parts, the entry
\* is that of the last such line, a line with an empty text and a line with the
\* separator in its text give no entry, and the cell has not failed but for
\* the conversations file.
C23_FivePartsLastWins ==
    (nb = "movie" /\ "parsed_lines" \in bound) =>
        /\ DOMAIN parsed_lines = {LineId(disk.movie_lines[i]) : i \in FiveParts}
        /\ \A line_id \in DOMAIN parsed_lines :
              parsed_lines[line_id] = [author |-> PartText(Parts(LastWith(line_id))[4]),
                                       text |-> PartText(Parts(LastWith(line_id))[5])]
        /\ \A i \in 1..Len(disk.movie_lines) :
              (EmptyText(disk.movie_lines[i]) \/ SeparatorInText(disk.movie_lines[i]))
                  => i \notin FiveParts
        /\ (pc = "parse" /\ run = "failed") => SomeConversationRaises(disk.movie_conversations)

\* C23's case: two lines with the id L1, the second of which gave the entry.
C23_Witness ==
    /\ MvCompleted("parse")
    /\ Len(disk.movie_lines) = 2
    /\ FiveParts = {1, 2}
    /\ DOMAIN parsed_lines = {"L1"}
    /\ parsed_lines["L1"].text = "bye"
    /\ PartText(Parts(disk.movie_lines[1])[5]) = "hi"

\* ================================================================
\* Intro to Programmatic Actions with Label Studio -- SDK (unnamed/part_000)
\* ================================================================
\* This notebook is stepped through cell by cell: a cell that raises ends there,
\* and the user goes on to the next cell.  Its SDK calls are taken to succeed.

\* data: the five images of step 0.
data ==
    << [image |-> "rag_0.jpg"], [image |-> "rag_1.jpg"], [image |-> "rag_2.jpg"],
       [image |-> "rag_3.jpg"], [image |-> "rag_4.jpg"] >>

\* label_config of the first project and ner_label_config of the second.
OcrLabelConfig ==
    << XmlLine("View", "", ""),
       XmlLine("Image", "image", "$image"),
       XmlLine("RectangleLabels", "bbox", "image"),
       XmlLine("Label", "", "Heading"),
       XmlLine("Label", "", "Paragraph"),
       XmlLine("/RectangleLabels", "", ""),
       XmlLine("TextArea", "transcription", "image"),
       XmlLine("/View", "", "") >>

NerLabelConfig ==
    << XmlLine("View", "", ""),
       XmlLine("Text", "text", "$text"),
       XmlLine("Labels", "NER", "text"),
       XmlLine("Label", "", "PER"),
       XmlLine("Label", "", "ORG"),
       XmlLine("/Labels", "", ""),
       XmlLine("/View", "", "") >>

\* A result of an annotation: a region's rectangle, whose value has no 'text', or
\* a region's transcription, whose value has the list of its strings.
RectResult == [from_name |-> "bbox", to_name |-> "image", type |-> "rectanglelabels",
               value |-> [rectanglelabels |-> <<"Heading">>]]
TextResult(strings) == [from_name |-> "transcription", to_name |-> "image", type |-> "textarea",
                        value |-> [text |-> strings]]

\* What the annotators may leave on a task: no annotation; one with a rectangle
\* only; one with a rectangle and its transcription; two annotations with a
\* transcription each (the first of two strings); one whose transcription is the
\* empty string.
AnnotationPool ==
    { <<>>,
      << [result |-> <<RectResult>>] >>,
      << [result |-> <<RectResult, TextResult(<<"Hello">>)>>] >>,
      << [result |-> <<TextResult(<<"A", "x">>)>>], [result |-> <<TextResult(<<"B">>)>>] >>,
      << [result |-> <<TextResult(<<"">>)>>] >> }

\* The id the server gives the next task: ids are never reused.
RECURSIVE TaskCount(_)
TaskCount(srv) == IF srv = <<>> THEN 0 ELSE Len(Head(srv).tasks) + TaskCount(Tail(srv))

\* A task as the server keeps it.
Task(id, taskData) == [id |-> id, data |-> taskData, annotations |-> <<>>, predictions |-> <<>>]

\* ls.tasks.create(project=p, data=d)
CreateTask(srv, p, taskData) == [srv EXCEPT ![p].tasks = Append(@, Task(TaskCount(srv) + 1, taskData))]

\* ls.projects.import_tasks(id=p, request=items): one task per item, in order.
RECURSIVE ImportTasks(_, _, _)
ImportTasks(srv, p, items) ==
    IF items = <<>> THEN srv ELSE ImportTasks(CreateTask(srv, p, Head(items)), p, Tail(items))

InitSDK ==
    /\ nb = "sdk"
    /\ pc = "setup"
    /\ run = "running"
    /\ raised = "none"
    /\ runNo = 1
    /\ stdout = <<>>
    /\ remote = <<>>
    /\ disk = NoFile
    /\ server = <<>>
    /\ project = 0
    /\ response = NoResponse
    /\ transformed_dialogues = <<>>
    /\ unique_intents = {}
    /\ sorted_unique_intents = <<>>
    /\ firstRun = NoFirstRun
    /\ bound = {}
    /\ parsed_lines = <<>>
    /\ movie_conversations = <<>>
    /\ pid = 0
    /\ p2id = 0
    /\ tasks = <<>>
    /\ log = <<>>
    /\ wentBack = FALSE
    /\ ner_completion = NoCompletion
    /\ json_data = NoDocument
    /\ classes = NoClasses
    /\ completions = NoCompletions
    /\ api_requests = <<>>
    /\ vectordb = <<>>
    /\ chatbot = NoChatbot
    /\ qa_turns = <<>>
    /\ extraction = NoExtraction
    /\ config_ini = NoConfig
    /\ scraped = <<>>

SdkAt(cell) == nb = "sdk" /\ run = "running" /\ pc = cell

\* The cell has run and ended in exc ("none": normally); the next cell is up.
Ran(cell, exc, next) ==
    /\ log' = Append(log, [cell |-> cell, exc |-> exc])
    /\ raised' = exc
    /\ pc' = next
    /\ run' = IF next = "end" THEN "done" ELSE "running"

\* The cells up to the client: credentials, data, ls = LabelStudio(...).
SdkSetup ==
    /\ SdkAt("setup")
    /\ bound' = bound \cup {"label_studio_url", "label_studio_api_key", "data", "LabelStudio", "ls"}
    /\ Ran("setup", "none", "create_project")
    /\ UNCHANGED <<nb, stdout, server, pid, p2id, tasks, wentBack, notSdkVars>>

\* proj = ls.projects.create(...); pid = proj.id
SdkCreateProject ==
    /\ SdkAt("create_project")
    /\ server' = Append(server, NewProject("OCR for RAG PDF", OcrLabelConfig))
    /\ pid' = Len(server')
    /\ bound' = bound \cup {"LabelInterface", "labels", "choices", "label_config", "label_config2",
                            "proj", "pid"}
    /\ stdout' = Append(stdout, Printed("Created project", pid'))
    /\ Ran("create_project", "none", "import_tasks")
    /\ UNCHANGED <<nb, p2id, tasks, wentBack, notSdkVars>>

\* ls.projects.import_tasks(id=pid, request=data)
SdkImportTasks ==
    /\ SdkAt("import_tasks")
    /\ server' = ImportTasks(server, pid, data)
    /\ Ran("import_tasks", "none", "label")
    /\ UNCHANGED <<nb, stdout, bound, pid, p2id, tasks, wentBack, notSdkVars>>

\* "Now, you're ready to label!": the annotators leave their work on the tasks
\* of the first project.
SdkLabel ==
    /\ SdkAt("label")
    /\ \E work \in [1..Len(server[pid].tasks) -> AnnotationPool] :
          server' = [server EXCEPT ![pid].tasks =
                        [i \in 1..Len(@) |-> [@[i] EXCEPT !.annotations = work[i]]]]
    /\ pc' = "create_project2"
    /\ UNCHANGED <<nb, run, raised, stdout, bound, pid, p2id, tasks, log, wentBack, notSdkVars>>

\* proj2 = ls.projects.create(...); p2id = proj2.id
SdkCreateProject2 ==
    /\ SdkAt("create_project2")
    /\ server' = Append(server, NewProject("NER on OCR", NerLabelConfig))
    /\ p2id' = Len(server')
    /\ bound' = bound \cup {"ner_label_config", "proj2", "p2id"}
    /\ Ran("create_project2", "none", "chain")
    /\ UNCHANGED <<nb, stdout, pid, tasks, wentBack, notSdkVars>>

\* The two inner loops of the chaining cell: the first string of every result
\* whose value has a 'text' is added to text.
RECURSIVE TextOfResults(_, _)
TextOfResults(results, text) ==
    IF results = <<>> THEN text
    ELSE TextOfResults(Tail(results),
                       IF "text" \in DOMAIN Head(results).value
                       THEN text \o Head(results).value.text[1]
                       ELSE text)

RECURSIVE TextOfAnnotations(_, _)
TextOfAnnotations(annotations, text) ==
    IF annotations = <<>> THEN text
    ELSE TextOfAnnotations(Tail(annotations), TextOfResults(Head(annotations).result, text))

\* Mutant: the first task is printed only when it has an annotation.
ChainRaisesGuarded(task, i, names) ==
    IF i # 0 \/ task.annotations = <<>> THEN "none"
    ELSE IF "json" \notin names THEN "NameError"
    ELSE "none"

\* The exception the body of the chaining loop raises on task number i (from 0):
\* only the first task is printed, with json.dumps(task.annotations[0]).
ChainRaises(task, i, names) ==
    IF i # 0 THEN "none"
    ELSE IF "json" \notin names THEN "NameError"
    ELSE IF task.annotations = <<>> THEN "IndexError"
    ELSE "none"

\* The loop of the chaining cell from task number i on: the server as the loop
\* leaves it, and the exception that ended it.
RECURSIVE ChainLoop(_, _, _, _, _)
ChainLoop(listed, i, srv, target, names) ==
    IF listed = <<>> THEN [server |-> srv, exc |-> "none"]
    ELSE IF ChainRaises(Head(listed), i, names) # "none"
    THEN [server |-> srv, exc |-> ChainRaises(Head(listed), i, names)]
    ELSE LET text == TextOfAnnotations(Head(listed).annotations, "")
         IN  ChainLoop(Tail(listed), i + 1,
                       IF text # "" THEN CreateTask(srv, target, [text |-> text]) ELSE srv,
                       target, names)

\* The chaining cell: tasks = ls.tasks.list(project=proj.id), then the loop.
SdkChain ==
    /\ SdkAt("chain")
    /\ tasks' = server[pid].tasks
    /\ bound' = bound \cup {"tasks"}
    /\ LET end == ChainLoop(tasks', 0, server, p2id, bound)
       IN  /\ server' = end.server
           /\ stdout' = IF tasks' = <<>> THEN stdout ELSE Append(stdout, Printed("TASK", 0))
           /\ Ran("chain", end.exc, "sample_prediction")
    /\ UNCHANGED <<nb, pid, p2id, wentBack, notSdkVars>>

\* import json; project = ls.projects.get(id=p2id); the sample prediction is printed.
SdkSamplePrediction ==
    /\ SdkAt("sample_prediction")
    /\ bound' = bound \cup {"json", "project", "li", "sample_pred"}
    /\ stdout' = Append(stdout, Printed("p2id", p2id))
    /\ Ran("sample_prediction", "none", "preannotate")
    /\ UNCHANGED <<nb, server, pid, p2id, tasks, wentBack, notSdkVars>>

\* With json imported, the user goes back to the chaining cell and runs it again.
SdkGoBack ==
    /\ SdkAt("preannotate")
    /\ ~wentBack
    /\ wentBack' = TRUE
    /\ pc' = "chain"
    /\ UNCHANGED <<nb, run, raised, stdout, server, bound, pid, p2id, tasks, log, notSdkVars>>

\* Mutant: the item carries the names of the structured-outputs NER config.
PredictedSloganOtherNames ==
    [from_name |-> "label", to_name |-> "text", type |-> "labels",
     value |-> [start |-> 10, end |-> 20, labels |-> <<"Person">>]]

\* predicted_slogan, the result item the pre-annotation cell builds for every task.
PredictedSlogan ==
    [from_name |-> "NER", to_name |-> "text", type |-> "labels",
     value |-> [start |-> 10, end |-> 20, labels |-> <<"PER">>]]

\* The prediction the pre-annotation cell passes to ls.predictions.create; the
\* score 0.99 is kept in hundredths, and predicted_label as a reference by name.
Prediction(taskId) ==
    [task |-> taskId, model_version |-> "random-ai-prediction", score |-> 99,
     result |-> << [name |-> "predicted_label"], PredictedSlogan >>]

\* ls.predictions.create(task=task.id, ...): the prediction is attached to the task.
CreatePrediction(srv, p, taskId) ==
    [srv EXCEPT ![p].tasks = [i \in 1..Len(@) |->
        IF @[i].id = taskId THEN [@[i] EXCEPT !.predictions = Append(@, Prediction(taskId))] ELSE @[i]]]

\* The loop of the pre-annotation cell: the list [predicted_label, predicted_slogan]
\* is built before the call, and predicted_label is bound nowhere in the notebook.
RECURSIVE PreannotateLoop(_, _, _, _)
PreannotateLoop(listed, srv, target, names) ==
    IF listed = <<>> THEN [server |-> srv, exc |-> "none"]
    ELSE IF "predicted_label" \notin names THEN [server |-> srv, exc |-> "NameError"]
    ELSE PreannotateLoop(Tail(listed), CreatePrediction(srv, target, Head(listed).id), target, names)

\* The pre-annotation cell: tasks = ls.tasks.list(project=p2id), then the loop.
SdkPreannotate ==
    /\ SdkAt("preannotate")
    /\ tasks' = server[p2id].tasks
    /\ bound' = bound \cup {"random", "PredictionValue", "tasks"}
                      \cup (IF tasks' = <<>> THEN {} ELSE {"task", "predicted_slogan"})
    /\ LET end == PreannotateLoop(tasks', server, p2id, bound)
       IN  /\ server' = end.server
           /\ Ran("preannotate", end.exc, "end")
    /\ UNCHANGED <<nb, stdout, pid, p2id, wentBack, notSdkVars>>

NextSDK ==
    \/ SdkSetup
    \/ SdkCreateProject
    \/ SdkImportTasks
    \/ SdkLabel
    \/ SdkCreateProject2
    \/ SdkChain
    \/ SdkSamplePrediction
    \/ SdkGoBack
    \/ SdkPreannotate

SpecSDK == InitSDK /\ [][NextSDK]_vars

\* ------------------------------------------------------ SDK intro: claims

\* The last cell that ran, and "every cell above the given one has run".
LastCell == IF log = <<>> THEN "none" ELSE log[Len(log)].cell
HasRun(cell) == \E i \in 1..Len(log) : log[i].cell = cell

\* What the claim expects in the second project: for every task of the first
\* project in listing order whose texts concatenate to a non-empty string, that string.
RECURSIVE ExpectedTexts(_)
ExpectedTexts(listed) ==
    IF listed = <<>> THEN <<>>
    ELSE LET text == TextOfAnnotations(Head(listed).annotations, "")
         IN  (IF text # "" THEN <<text>> ELSE <<>>) \o ExpectedTexts(Tail(listed))

\* C9: when the chaining cell has run, the second project holds one task for
\* every listed task of the first project whose concatenated first text strings
\* are non-empty, with that concatenation as its data 'text', in listing order,
\* and no task for the others.
C9_TaskPerAnnotatedText ==
    (nb = "sdk" /\ LastCell = "chain") =>
        LET created == server[p2id].tasks
            expected == ExpectedTexts(server[pid].tasks)
        IN  /\ Len(created) = Len(expected)
            /\ \A i \in 1..Len(expected) : created[i].data = [text |-> expected[i]]

FirstTaskFails ==
    /\ server[pid].tasks # <<>>
    /\ "json" \notin bound \/ server[pid].tasks[1].annotations = <<>>

\* C24: when the chaining cell has run and handling the first listed task
\* fails, the cell has ended in NameError (json not bound) or IndexError (no
\* annotation), and the second project has no task; otherwise the cell has
\* ended normally.
C24_FirstTaskFailureCreatesNothing ==
    (nb = "sdk" /\ LastCell = "chain") =>
        IF FirstTaskFails
        THEN /\ raised = (IF "json" \notin bound THEN "NameError" ELSE "IndexError")
             /\ server[p2id].tasks = <<>>
        ELSE raised = "none"

\* C24's case: json is bound, the first task has no annotation, a later task has
\* the transcription 'Hello', and the second project is empty after the cell.
C24_Witness ==
    /\ nb = "sdk" /\ LastCell = "chain"
    /\ "json" \in bound
    /\ raised = "IndexError"
    /\ \E i \in 2..Len(server[pid].tasks) :
          TextOfAnnotations(server[pid].tasks[i].annotations, "") = "Hello"
    /\ server[p2id].tasks = <<>>

\* C25: the result item the pre-annotation cell builds has type 'labels', its
\* from_name is the name of a Labels tag of the second project's labeling
\* config, its to_name is that tag's toName and the name of the config's Text
\* tag, and each of its labels is the value of a Label inside that Labels tag.
C25_ItemNamesDeclared ==
    (nb = "sdk" /\ "predicted_slogan" \in bound) =>
        LET label_config == server[p2id].label_config
            at(tag) == {i \in 1..Len(label_config) : label_config[i].tag = tag}
        IN  /\ PredictedSlogan.type = "labels"
            /\ \E c \in at("Labels"), e \in at("/Labels"), o \in at("Text") :
                  /\ c < e
                  /\ label_config[c].name = PredictedSlogan.from_name
                  /\ label_config[c].value = PredictedSlogan.to_name
                  /\ label_config[o].name = PredictedSlogan.to_name
                  /\ \A k \in 1..Len(PredictedSlogan.value.labels) :
                        \E l \in at("Label") :
                            /\ c < l /\ l < e
                            /\ label_config[l].value = PredictedSlogan.value.labels[k]

\* C25's case: the pre-annotation cell has run over a second project that holds
\* a task, and has built the item for it.
C25_Witness ==
    /\ nb = "sdk" /\ LastCell = "preannotate"
    /\ "predicted_slogan" \in bound
    /\ Len(server[p2id].tasks) = 1
    /\ server[p2id].title = "NER on OCR"

\* ================================================================
\* The two notebooks that download their data
\* ================================================================

InitFetch == InitCS \/ InitMovie

NextFetch == NextCS \/ NextMovie

SpecFetch == InitFetch /\ [][NextFetch]_vars

\* A call to an external service has failed in this run: the library raised, or
\* the HTTP server answered with a status other than 200.
HttpStatusFailed ==
    \/ nb = "cs" /\ response.status_code \notin {0, 200}
    \/ nb = "movie" /\ disk.zip = "page"
CallFailed == HttpStatusFailed \/ raised \in {"ConnectionError", "ApiError"}

\* C2 as stated: every failed call to an external service ends the run with an
\* exception; none is handled in the cell.
C2_EveryFailureStopsRun == CallFailed => run = "failed"

\* C2 as amended: a call on which the library raises ends the run at that cell,
\* and so does a failed download of the movie corpus (zipfile raises on the
\* body, nothing is extracted, nothing is parsed or imported); a non-200 answer
\* to the Customer Support download does not: the cell prints its message,
\* leaves dialogues.jsonl as it was, and the run goes on with the next cell.
C2_FailuresStopRunExceptHttpStatus ==
    /\ raised \in {"ConnectionError", "ApiError", "BadZipFile"} => run = "failed"
    /\ (nb = "movie" /\ disk.zip = "page") =>
          /\ run = "failed" /\ raised = "BadZipFile" /\ pc = "download"
          /\ ~disk.extracted
          /\ "parsed_lines" \notin bound
          /\ server[project].tasks = <<>>
    /\ (nb = "cs" /\ response.status_code \notin {0, 200}) =>
          /\ pc # "download"
          /\ raised \notin {"ConnectionError", "BadZipFile"}
          /\ disk = CsFileAtStart
          /\ stdout # <<>>
          /\ stdout[1] = Printed("Failed to download the file. Status code:", response.status_code)

\* C2's case: the Customer Support download was answered 404 and the run has gone
\* on, through the transformation of the file an earlier run left, to the next cell.
C2_Witness ==
    /\ nb = "cs" /\ response.status_code = 404
    /\ run = "running" /\ pc = "intents"
    /\ Len(transformed_dialogues) = 2

\* ================================================================
\* The three notebooks that create a project and fill it
\* ================================================================

InitProjects == InitCS \/ InitMovie \/ InitSDK

NextProjects == NextCS \/ NextMovie \/ NextSDK

SpecProjects == InitProjects /\ [][NextProjects]_vars

\* The project is the one the creation call of this run returned to the cell
\* that is up: proj.id and proj2.id in the SDK intro notebook, whose import cell
\* uses pid and whose chaining cell p2id, and the object start_project returned
\* in the other two.  A name is bound only once the call has returned, and a
\* restarted kernel has no name bound.
ReturnedByCreation(p) ==
    IF nb = "sdk"
    THEN \/ pc = "import_tasks" /\ "pid" \in bound /\ p = pid
         \/ pc = "chain" /\ "p2id" \in bound /\ p = p2id
    ELSE pc = "import_tasks" /\ "project" \in bound /\ p = project

\* C26: a step that adds tasks to a project adds them to the project the
\* creation call of the same run has returned, and a project is empty when it
\* is created.
C26_ImportAfterCreation ==
    [][/\ \A p \in 1..Len(server) :
             Len(server'[p].tasks) > Len(server[p].tasks) => ReturnedByCreation(p)
       /\ \A p \in (Len(server) + 1)..Len(server') : server'[p].tasks = <<>>]_vars

\* C26's case: a second run of the Customer Support notebook has created its
\* own project beside the first run's and imported its two dialogues into it.
C26_Witness ==
    /\ nb = "cs" /\ runNo = 2 /\ run = "done"
    /\ Len(server) = 2 /\ project = 2
    /\ Len(server[1].tasks) = 1
    /\ Len(server[2].tasks) = 1
    /\ firstRun.done

\* ================================================================
\* Structured outputs: Label Studio NER Example
\* ================================================================

\* A string is a sequence of characters.  "." is the character that stands for
\* any character in a regular expression unless it is escaped.
Chars == {"a", "."}

\* The longest data.text and the longest entity text, in characters.
MaxTextLen == 2

Strings == SeqsUpTo(Chars, MaxTextLen)

\* The characters re.escape puts a backslash before.
Special == {".", "\\"}

\* Mutant: the entity text is used as the pattern without re.escape.
ReEscapeOmitted(pattern) == pattern

\* re.escape(pattern): a backslash is put before every special character.
RECURSIVE re_escape(_)
re_escape(pattern) ==
    IF pattern = <<>> THEN <<>>
    ELSE (IF Head(pattern) \in Special THEN <<"\\", Head(pattern)>> ELSE <<Head(pattern)>>)
         \o re_escape(Tail(pattern))

\* The compiled pattern: a backslash makes the character after it literal, a
\* bare "." matches any character, every other character matches itself.
RECURSIVE Compile(_)
Compile(pattern) ==
    IF pattern = <<>> THEN <<>>
    ELSE IF Head(pattern) = "\\" /\ Len(pattern) >= 2
         THEN <<[any |-> FALSE, ch |-> pattern[2]]>> \o Compile(Tail(Tail(pattern)))
    ELSE IF Head(pattern) = "."
         THEN <<[any |-> TRUE, ch |-> "."]>> \o Compile(Tail(pattern))
    ELSE <<[any |-> FALSE, ch |-> Head(pattern)]>> \o Compile(Tail(pattern))

\* The compiled pattern matches the string at the 0-based position pos.
MatchesAt(compiled, string, pos) ==
    /\ pos + Len(compiled) <= Len(string)
    /\ \A k \in 1..Len(compiled) : compiled[k].any \/ compiled[k].ch = string[pos + k]

\* re.search(pattern, string): the match at the first position, scanning from
\* the left, where the pattern matches; None when there is none.
NoMatch == [matched |-> FALSE, start |-> 0, end |-> 0]
re_search(pattern, string) ==
    LET compiled == Compile(pattern)
        found == {pos \in 0..Len(string) : MatchesAt(compiled, string, pos)}
    IN  IF found = {} THEN NoMatch
        ELSE LET first == CHOOSE pos \in found : \A other \in found : pos <= other
             IN  [matched |-> TRUE, start |-> first, end |-> first + Len(compiled)]

\* Mutant: an item whose text is not found has its offsets reset to 0.
CorrectResultResetUnmatched(result, text) ==
    LET match == re_search(re_escape(result.value.text), text)
    IN  [result EXCEPT !.value.start = match.start, !.value.end = match.end]

\* Mutant: the match position is added to the offset the item had.
CorrectResultRelative(result, text) ==
    LET match == re_search(re_escape(result.value.text), text)
    IN  IF match.matched
        THEN [result EXCEPT !.value.start = @ + match.start,
                            !.value.end = result.value.start + match.end]
        ELSE result

\* The body of the inner loop: the item's offsets are overwritten when its text
\* is found in the document's text, and left as they are when it is not.
CorrectResult(result, text) ==
    LET search_text == result.value.text
        match == re_search(re_escape(search_text), text)
    IN  IF match.matched
        THEN [result EXCEPT !.value.start = match.start, !.value.end = match.end]
        ELSE result

\* Mutant: the corrected items are collected into a new list, newest first.
RECURSIVE CorrectResultsReversed(_, _)
CorrectResultsReversed(results, text) ==
    IF results = <<>> THEN <<>>
    ELSE CorrectResultsReversed(Tail(results), text) \o <<CorrectResult(Head(results), text)>>

\* for result in prediction["result"]
RECURSIVE CorrectResults(_, _)
CorrectResults(results, text) ==
    IF results = <<>> THEN <<>>
    ELSE <<CorrectResult(Head(results), text)>> \o CorrectResults(Tail(results), text)

\* for prediction in json_data["predictions"]
RECURSIVE CorrectPredictions(_, _)
CorrectPredictions(predictions, text) ==
    IF predictions = <<>> THEN <<>>
    ELSE <<[Head(predictions) EXCEPT !.result = CorrectResults(@, text)]>>
         \o CorrectPredictions(Tail(predictions), text)

\* The correction pass over a parsed document.
CorrectOffsets(document) ==
    [document EXCEPT !.predictions = CorrectPredictions(@, document.data.text)]

\* ------------------------------------- structured outputs: the completion

\* The offsets the model may give an item: it is free to return any integers.
OffsetPool == {<<0, 1>>, <<1, 2>>, <<3, 5>>}

\* ResultItem, with its Label as value.  Scores are in hundredths.
ResultItem(id, text, offsets, score, label) ==
    [id |-> id, from_name |-> "label", to_name |-> "text", type |-> "labels",
     value |-> [start |-> offsets[1], end |-> offsets[2], score |-> score,
                text |-> text, labels |-> <<label>>]]

\* The first and the second item of an answer.
FirstItems == {ResultItem("1", text, offsets, 95, "Person") : text \in Strings, offsets \in OffsetPool}
SecondItems == {ResultItem("2", text, offsets, 90, "DateTime") : text \in Strings, offsets \in OffsetPool}

\* Prediction
NerPrediction(result) == [model_version |-> "1.0", result |-> result]

\* The predictions of an answer: none, one without items, one with one or with
\* two items, or two with one item each.
PredictionLists ==
    {<<>>, <<NerPrediction(<<>>)>>}
    \cup {<<NerPrediction(<<a>>)>> : a \in FirstItems}
    \cup {<<NerPrediction(<<a, b>>)>> : a \in FirstItems, b \in SecondItems}
    \cup {<<NerPrediction(<<a>>), NerPrediction(<<b>>)>> : a \in FirstItems, b \in SecondItems}

\* NamedEntities: the documents the response format admits.  The text the model
\* puts in data.text and the entity texts are its own output.
NamedEntities == {[data |-> [text |-> text], predictions |-> predictions] :
                     text \in Strings, predictions \in PredictionLists}

\* json.loads of a message content: the content is a document of the response
\* format, and parsing it yields that document; a refusal has no content (None).
JsonLoadsRaises(message) == message.refusal
JsonLoadsContent(message) == message.content

InitNER ==
    /\ nb = "ner"
    /\ pc = "setup"
    /\ run = "running"
    /\ raised = "none"
    /\ runNo = 1
    /\ stdout = <<>>
    /\ remote = <<>>
    /\ disk = NoFile
    /\ server = <<>>
    /\ project = 0
    /\ response = NoResponse
    /\ transformed_dialogues = <<>>
    /\ unique_intents = {}
    /\ sorted_unique_intents = <<>>
    /\ firstRun = NoFirstRun
    /\ bound = {}
    /\ parsed_lines = <<>>
    /\ movie_conversations = <<>>
    /\ pid = 0
    /\ p2id = 0
    /\ tasks = <<>>
    /\ log = <<>>
    /\ wentBack = FALSE
    /\ ner_completion = NoCompletion
    /\ json_data = NoDocument
    /\ classes = NoClasses
    /\ completions = NoCompletions
    /\ api_requests = <<>>
    /\ vectordb = <<>>
    /\ chatbot = NoChatbot
    /\ qa_turns = <<>>
    /\ extraction = NoExtraction
    /\ config_ini = NoConfig
    /\ scraped = <<>>

NerAt(cell) == nb = "ner" /\ run = "running" /\ pc = cell

\* The cells above the request: imports, client = OpenAI(), the schema classes, ner_input.
NerSetup ==
    /\ NerAt("setup")
    /\ bound' = bound \cup {"json", "client", "NamedEntities", "ner_input"}
    /\ Goto("completion")
    /\ UNCHANGED <<nb, stdout, disk, nerVars, notNerVars>>

\* ner_completion = client.beta.chat.completions.parse(..., response_format=NamedEntities)
NerCompletion ==
    /\ NerAt("completion")
    /\ \/ /\ \E content \in NamedEntities : ner_completion' = [refusal |-> FALSE, content |-> content]
          /\ bound' = bound \cup {"ner_completion"}
          /\ Goto("print")
       \/ /\ ner_completion' = [refusal |-> TRUE, content |-> NoDocument]
          /\ bound' = bound \cup {"ner_completion"}
          /\ Goto("print")
       \/ /\ Raise("APIError")
          /\ UNCHANGED <<ner_completion, bound>>
    /\ UNCHANGED <<nb, stdout, disk, json_data, notNerVars>>

\* print(json.dumps(json.loads(ner_completion.choices[0].message.content), indent=4))
NerPrint ==
    /\ NerAt("print")
    /\ IF JsonLoadsRaises(ner_completion)
       THEN Raise("TypeError") /\ UNCHANGED stdout
       ELSE Goto("correct") /\ stdout' = Append(stdout, JsonLoadsContent(ner_completion))
    /\ UNCHANGED <<nb, bound, disk, nerVars, notNerVars>>

\* The correction cell: import re, json_data = json.loads(...), the two loops,
\* and the print of the updated document.
NerCorrect ==
    /\ NerAt("correct")
    /\ json_data' = CorrectOffsets(JsonLoadsContent(ner_completion))
    /\ stdout' = Append(stdout, json_data')
    /\ bound' = bound \cup {"re", "json_data", "text"}
    /\ Goto("save")
    /\ UNCHANGED <<nb, disk, ner_completion, notNerVars>>

\* json.dump(json_data, json_file, indent=4) into formatted_ner_prediction.json
NerSave ==
    /\ NerAt("save")
    /\ disk' = FileOf(<<json_data>>)
    /\ bound' = bound \cup {"file_path"}
    /\ run' = "done"
    /\ raised' = raised
    /\ pc' = "end"
    /\ UNCHANGED <<nb, stdout, nerVars, notNerVars>>

NextNER ==
    \/ NerSetup
    \/ NerCompletion
    \/ NerPrint
    \/ NerCorrect
    \/ NerSave

SpecNER == InitNER /\ [][NextNER]_vars

\* ------------------------------------------ structured outputs: claims

\* text[start:end] as Python slices a string: a negative index counts from the
\* end, and both indexes are clamped to the string.
SliceIndex(index, length) ==
    IF index < 0 THEN (IF index + length < 0 THEN 0 ELSE index + length)
    ELSE (IF index > length THEN length ELSE index)
Slice(string, start, end) ==
    LET lo == SliceIndex(start, Len(string))
        hi == SliceIndex(end, Len(string))
    IN  IF lo >= hi THEN <<>> ELSE SubSeq(string, lo + 1, hi)

\* The correction pass has run in this kernel.
NerCorrected == nb = "ner" /\ pc \in {"save", "end"}

\* C1: after the correction pass, for every prediction and every result item,
\* data.text[start:end] equals value.text.
C1_OffsetsExact ==
    NerCorrected =>
        \A i \in 1..Len(json_data.predictions) :
            \A j \in 1..Len(json_data.predictions[i].result) :
                LET value == json_data.predictions[i].result[j].value
                IN  Slice(json_data.data.text, value.start, value.end) = value.text

\* ================================================================
\* Structured outputs: the three response schemas
\* ================================================================

\* The types a field of a pydantic class can have in the notebook.
FloatType == [kind |-> "float"]
IntType == [kind |-> "int"]
StrType == [kind |-> "str"]
Literal(value) == [kind |-> "literal", value |-> value]
Enum(values) == [kind |-> "enum", values |-> values]
ListOf(type) == [kind |-> "list", of |-> type]
Field(name, type) == [name |-> name, type |-> type]
BaseModel(fields) == [kind |-> "model", fields |-> fields]

\* The cell that defines the Summarization schema.  A class statement binds its
\* name to a new class; a field annotation is evaluated when the class is made,
\* so a class holds the classes its annotations named at that moment.
SummarizationCell(ns) ==
    LET cLabel == BaseModel({Field("score", FloatType), Field("text", StrType)})
        cResultItem == BaseModel({Field("id", StrType), Field("from_name", Literal("answer")),
                                  Field("to_name", Literal("text")), Field("type", Literal("textarea")),
                                  Field("value", cLabel)})
        cPrediction == BaseModel({Field("model_version", StrType), Field("result", ListOf(cResultItem))})
        cData == BaseModel({Field("text", StrType)})
    IN  [ns EXCEPT !.Label = cLabel, !.ResultItem = cResultItem, !.Prediction = cPrediction,
                   !.Data = cData,
                   !.Summarization = BaseModel({Field("data", cData),
                                                Field("predictions", ListOf(cPrediction))})]

\* The cell that defines the Classification schema.
ClassificationCell(ns) ==
    LET cEntityType == Enum({"Positive", "Negative", "Neutral"})
        cLabel == BaseModel({Field("score", FloatType), Field("choices", ListOf(cEntityType))})
        cResultItem == BaseModel({Field("id", StrType), Field("from_name", Literal("sentiment")),
                                  Field("to_name", Literal("text")), Field("type", Literal("choices")),
                                  Field("value", cLabel)})
        cPrediction == BaseModel({Field("model_version", StrType), Field("result", ListOf(cResultItem))})
        cData == BaseModel({Field("text", StrType)})
    IN  [ns EXCEPT !.EntityType = cEntityType, !.Label = cLabel, !.ResultItem = cResultItem,
                   !.Prediction = cPrediction, !.Data = cData,
                   !.Classification = BaseModel({Field("data", cData),
                                                 Field("predictions", ListOf(cPrediction))})]

\* The cell that defines the NamedEntities schema.
NamedEntitiesCell(ns) ==
    LET cEntityType == Enum({"Person", "Organization", "Location", "DateTime", "Product",
                             "Percent", "Fact", "Money"})
        cLabel == BaseModel({Field("start", IntType), Field("end", IntType), Field("score", FloatType),
                             Field("text", StrType), Field("labels", ListOf(cEntityType))})
        cResultItem == BaseModel({Field("id", StrType), Field("from_name", Literal("label")),
                                  Field("to_name", Literal("text")), Field("type", Literal("labels")),
                                  Field("value", cLabel)})
        cPrediction == BaseModel({Field("model_version", StrType), Field("result", ListOf(cResultItem))})
        cData == BaseModel({Field("text", StrType)})
    IN  [ns EXCEPT !.EntityType = cEntityType, !.Label = cLabel, !.ResultItem = cResultItem,
                   !.Prediction = cPrediction, !.Data = cData,
                   !.NamedEntities = BaseModel({Field("data", cData),
                                                Field("predictions", ListOf(cPrediction))})]

\* Mutant: the field is annotated str, and takes any string.
LiteralAsStr(value, json) == TRUE

\* A Literal field takes its one value and nothing else.
LiteralConforms(value, json) == json = value

\* The content conforms to the response format: the request sends the class as
\* a strict JSON schema (every field required, no other key allowed, a Literal
\* as a constant, an Enum as its values) and the content is validated against
\* the class when the completion is parsed.
RECURSIVE Conforms(_, _)
Conforms(type, json) ==
    CASE type.kind = "literal" -> LiteralConforms(type.value, json)
      [] type.kind = "enum" -> json \in type.values
      [] type.kind = "list" -> \A i \in 1..Len(json) : Conforms(type.of, json[i])
      [] type.kind = "model" ->
            /\ DOMAIN json = {f.name : f \in type.fields}
            /\ \A f \in type.fields : Conforms(f.type, json[f.name])
      [] OTHER -> TRUE

\* The requests a session makes at most: the three of the notebook, and the
\* re-runs of request cells.
MaxRequests == 5

\* What a model may try to answer with: the values of a result item ...
RawValues ==
    {[score |-> score, text |-> <<"a">>] : score \in {95, 50}}
    \cup {[score |-> score, choices |-> <<"Positive">>] : score \in {95, 50}}
    \cup {[score |-> 95, choices |-> <<"Negative", "Neutral">>],
          [score |-> 95, choices |-> <<"Happy">>],
          [score |-> 95]}
    \cup {[start |-> 0, end |-> 1, score |-> score, text |-> <<"a">>, labels |-> <<"Organization">>] :
              score \in {95, 50}}
    \cup {[start |-> 0, end |-> 1, score |-> 95, text |-> <<"a">>, labels |-> <<"Money">>],
          [start |-> 0, end |-> 1, score |-> 95, text |-> <<"a">>, labels |-> <<"Person", "Animal">>]}

\* ... the result items, with the names of any section or without a from_name ...
RawItems ==
    {[id |-> "1", from_name |-> from_name, to_name |-> to_name, type |-> type, value |-> value] :
        from_name \in {"answer", "sentiment", "label"}, to_name \in {"text", "image"},
        type \in {"textarea", "choices", "labels"}, value \in RawValues}
    \cup {[id |-> "1", to_name |-> "text", type |-> type, value |-> value] :
        type \in {"textarea", "choices", "labels"}, value \in RawValues}

\* ... a second item, one in the shape of each section ...
MoreRawItems ==
    {[id |-> "2", from_name |-> "answer", to_name |-> "text", type |-> "textarea",
      value |-> [score |-> 80, text |-> <<"a">>]],
     [id |-> "2", from_name |-> "sentiment", to_name |-> "text", type |-> "choices",
      value |-> [score |-> 80, choices |-> <<"Neutral">>]],
     [id |-> "2", from_name |-> "label", to_name |-> "text", type |-> "labels",
      value |-> [start |-> 0, end |-> 1, score |-> 80, text |-> <<"a">>, labels |-> <<"Fact">>]]}

\* ... and the documents: no prediction, or one prediction of up to two items.
RawDocuments ==
    {[data |-> [text |-> <<"a">>], predictions |-> <<>>]}
    \cup {[data |-> [text |-> <<"a">>], predictions |-> <<[model_version |-> "1.0", result |-> result]>>] :
            result \in {<<>>} \cup {<<a>> : a \in RawItems}
                              \cup {<<a, b>> : a \in RawItems, b \in MoreRawItems}}

InitSchemas ==
    /\ nb = "structured"
    /\ pc = "summarization_schema"
    /\ run = "running"
    /\ raised = "none"
    /\ runNo = 1
    /\ stdout = <<>>
    /\ remote = <<>>
    /\ disk = NoFile
    /\ server = <<>>
    /\ project = 0
    /\ response = NoResponse
    /\ transformed_dialogues = <<>>
    /\ unique_intents = {}
    /\ sorted_unique_intents = <<>>
    /\ firstRun = NoFirstRun
    /\ bound = {"json", "client"}
    /\ parsed_lines = <<>>
    /\ movie_conversations = <<>>
    /\ pid = 0
    /\ p2id = 0
    /\ tasks = <<>>
    /\ log = <<>>
    /\ wentBack = FALSE
    /\ ner_completion = NoCompletion
    /\ json_data = NoDocument
    /\ classes = NoClasses
    /\ completions = NoCompletions
    /\ api_requests = <<>>
    /\ vectordb = <<>>
    /\ chatbot = NoChatbot
    /\ qa_turns = <<>>
    /\ extraction = NoExtraction
    /\ config_ini = NoConfig
    /\ scraped = <<>>

SchemaAt(cell) == nb = "structured" /\ run = "running" /\ pc = cell

\* A cell of class statements has run.
DefineClasses(cell, after, next) ==
    /\ SchemaAt(cell)
    /\ classes' = after
    /\ Goto(next)
    /\ UNCHANGED <<nb, stdout, bound, completions, api_requests, notSchemaVars>>

\* Mutant: the annotations of the classes are resolved by name when the request
\* is made, as forward references are.
ResponseFormatByName(ns, name) ==
    BaseModel({Field("data", ns.Data),
               Field("predictions",
                     ListOf(BaseModel({Field("model_version", StrType),
                                       Field("result", ListOf(ns.ResultItem))})))})

\* response_format=<name>: the class the name is bound to when the cell runs.
ResponseFormat(ns, name) == ns[name]

\* The position of a request cell that is run again, out of order.
Again(cell) == cell \o "_again"

\* client.beta.chat.completions.parse(..., response_format=<class>): the content
\* conforms to the class sent, or the call raises.  Run in its place the cell
\* is followed by the next one; run again, by nothing.
RequestCompletion(cell, name, variable, next) ==
    /\ nb = "structured" /\ run = "running" /\ pc \in {cell, Again(cell)}
    /\ api_requests' = Append(api_requests, [cell |-> cell, response_format |-> ResponseFormat(classes, name)])
    /\ \/ /\ \E content \in RawDocuments :
                /\ Conforms(ResponseFormat(classes, name), content)
                /\ completions' = [completions EXCEPT ![name] = content]
          /\ bound' = bound \cup {variable}
          /\ Goto(IF pc = cell THEN next ELSE "ner_print")
       \/ /\ Raise("APIError")
          /\ UNCHANGED <<completions, bound>>
    /\ UNCHANGED <<nb, stdout, classes, notSchemaVars>>

\* With the three sections run, the user goes back to the request cell of an
\* earlier section and runs it again.
SchemaRerun ==
    /\ SchemaAt("ner_print")
    /\ Len(api_requests) < MaxRequests
    /\ \E cell \in {"summarization_request", "classification_request"} : pc' = Again(cell)
    /\ UNCHANGED <<nb, run, raised, stdout, bound, classes, completions, api_requests, notSchemaVars>>

SummarizationSchema ==
    DefineClasses("summarization_schema", SummarizationCell(classes), "summarization_request")
SummarizationRequest ==
    RequestCompletion("summarization_request", "Summarization", "summarization_completion",
                      "classification_schema")
ClassificationSchema ==
    DefineClasses("classification_schema", ClassificationCell(classes), "classification_request")
ClassificationRequest ==
    RequestCompletion("classification_request", "Classification", "classification_completion",
                      "ner_schema")
NamedEntitiesSchema ==
    DefineClasses("ner_schema", NamedEntitiesCell(classes), "ner_request")
NamedEntitiesRequest ==
    RequestCompletion("ner_request", "NamedEntities", "ner_completion", "ner_print")

NextSchemas ==
    \/ SummarizationSchema
    \/ SummarizationRequest
    \/ ClassificationSchema
    \/ ClassificationRequest
    \/ NamedEntitiesSchema
    \/ NamedEntitiesRequest
    \/ SchemaRerun

SpecSchemas == InitSchemas /\ [][NextSchemas]_vars

\* ------------------------------------------ the response schemas: claims

\* Every result item of the content has the three names, and the listed field
\* of its value holds only the allowed strings.
ItemsAre(content, from_name, to_name, type, listed, allowed) ==
    \A i \in 1..Len(content.predictions) :
        \A j \in 1..Len(content.predictions[i].result) :
            LET item == content.predictions[i].result[j]
            IN  /\ {"from_name", "to_name", "type"} \subseteq DOMAIN item
                /\ item.from_name = from_name
                /\ item.to_name = to_name
                /\ item.type = type
                /\ listed # "" =>
                      /\ listed \in DOMAIN item.value
                      /\ \A k \in 1..Len(item.value[listed]) : item.value[listed][k] \in allowed

\* C11: an output accepted under the Summarization schema has in every result
\* item from_name 'answer', to_name 'text', type 'textarea'; under Classification
\* 'sentiment', 'text', 'choices' and choices among Positive, Negative, Neutral;
\* under NamedEntities 'label', 'text', 'labels' and labels among the eight
\* EntityType values.
C11_SchemaLiterals ==
    nb = "structured" =>
        /\ "summarization_completion" \in bound =>
              ItemsAre(completions.Summarization, "answer", "text", "textarea", "", {})
        /\ "classification_completion" \in bound =>
              ItemsAre(completions.Classification, "sentiment", "text", "choices", "choices",
                       {"Positive", "Negative", "Neutral"})
        /\ "ner_completion" \in bound =>
              ItemsAre(completions.NamedEntities, "label", "text", "labels", "labels",
                       {"Person", "Organization", "Location", "DateTime", "Product", "Percent",
                        "Fact", "Money"})

\* C11's case: the three requests have answered, each with two result items.
C11_Witness ==
    /\ nb = "structured" /\ pc = "ner_print"
    /\ \A name \in {"Summarization", "Classification", "NamedEntities"} :
          /\ Len(completions[name].predictions) = 1
          /\ Len(completions[name].predictions[1].result) = 2
    /\ completions.NamedEntities.predictions[1].result[1].value.labels = <<"Money">>

\* The entity types the system prompt of the NER request allows.
PromptEntityTypes == {"Person", "Location", "Organization", "DateTime"}

\* C21: a parsed NER output has no label outside the four entity types the
\* system prompt allows.
C21_OnlyPromptTypes ==
    (nb = "structured" /\ "ner_completion" \in bound) =>
        ItemsAre(completions.NamedEntities, "label", "text", "labels", "labels", PromptEntityTypes)

\* The type of a field of a class, and the result-item class a top-level class
\* holds: the item type of 'result' in the item type of 'predictions'.
FieldType(model, name) == (CHOOSE f \in model.fields : f.name = name).type
ResultItemOf(model) == FieldType(FieldType(model, "predictions").of, "result").of

\* What tells the result items of the sections apart: the from_name and type
\* they fix, and the fields of their value.
ItemFacts(item) ==
    [from_name |-> FieldType(item, "from_name").value,
     type |-> FieldType(item, "type").value,
     value |-> {f.name : f \in FieldType(item, "value").fields}]

\* The class each request cell names, and the result item its section defines.
RequestClass ==
    [summarization_request |-> "Summarization", classification_request |-> "Classification",
     ner_request |-> "NamedEntities"]
SectionItem ==
    [Summarization |-> [from_name |-> "answer", type |-> "textarea", value |-> {"score", "text"}],
     Classification |-> [from_name |-> "sentiment", type |-> "choices", value |-> {"score", "choices"}],
     NamedEntities |-> [from_name |-> "label", type |-> "labels",
                        value |-> {"start", "end", "score", "text", "labels"}]]

\* C27: whatever the names Label, ResultItem, Prediction and Data are bound to,
\* each top-level class that is defined holds the result item of its own
\* section, and every request made, in its place or run again after the three
\* definition cells, has sent the result item of the section of its cell.
C27_OwnSectionSchema ==
    nb = "structured" =>
        /\ \A name \in DOMAIN SectionItem :
              classes[name] # Unbound => ItemFacts(ResultItemOf(classes[name])) = SectionItem[name]
        /\ \A i \in 1..Len(api_requests) :
              ItemFacts(ResultItemOf(api_requests[i].response_format))
                  = SectionItem[RequestClass[api_requests[i].cell]]

\* C27's case: after the three sections the summarization request was run
\* again, while ResultItem named the NER section's class, and was answered.
C27_Witness ==
    /\ nb = "structured" /\ pc = "ner_print"
    /\ Len(api_requests) = 4
    /\ api_requests[4].cell = "summarization_request"
    /\ classes.ResultItem = ResultItemOf(classes.NamedEntities)
    /\ classes.ResultItem # ResultItemOf(api_requests[4].response_format)
    /\ Len(completions.Summarization.predictions) = 1
    /\ Len(completions.Summarization.predictions[1].result) = 1
    /\ completions.Summarization.predictions[1].result[1].from_name = "answer"

\* ================================================================
\* Question-answering system with Label Studio feedback
\* ================================================================
\* The scripts of this example (build_doc_db.py, label_studio_callback_handler.py,
\* chatbot.py, extract_good_examples.py) are modelled from their description in
\* the example's README and from the specification.

\* The most QA operations in a behaviour, and the most chatbot processes started.
MaxChats == 2
MaxStarts == 2

Questions == {"q1", "q2"}

\* An entry of the vector database: a documentation chunk or a labeled example.
\* added is the number of chatbot processes that had been started when the
\* entry was persisted.
Entry(kind, question, answer, added) ==
    [kind |-> kind, prompt |-> question, response |-> answer, added |-> added]

\* build_doc_db.py: the documentation chunks, embedded and persisted.
DocEntries == <<Entry("doc", "q1", "", 0)>>

\* The labeling config of the feedback project: the prompt, the response, and
\* the rating Good or Bad.
QaLabelConfig ==
    <<XmlLine("View", "", ""),
      XmlLine("Text", "prompt", "$prompt"),
      XmlLine("Text", "response", "$response"),
      XmlLine("Choices", "rating", "response"),
      XmlLine("Choice", "", "Good"),
      XmlLine("Choice", "", "Bad"),
      XmlLine("/Choices", "", ""),
      XmlLine("/View", "", "")>>

\* Mutant: the retriever reads the persisted database at every query.
RetrievePersisted(index, question) == SelectSeq(vectordb, LAMBDA e : e.prompt = question)

\* The retriever: the entries of the loaded index that are relevant to the query.
Retrieve(index, question) == SelectSeq(index, LAMBDA e : e.prompt = question)

\* The response the chain generates for a question.
Response(question) == "answer to " \o question

\* Mutant: the handler swallows a failed send and the operation completes.
CompletedAlways(completed, turn, sent) == Append(completed, turn)

\* A QA operation completes when the callback handler has sent its data; a
\* failed send raises, and the exception propagates out of the operation.
Completed(completed, turn, sent) == IF sent THEN Append(completed, turn) ELSE completed

InitQA ==
    /\ nb = "qa"
    /\ pc = "serving"
    /\ run = "running"
    /\ raised = "none"
    /\ runNo = 1
    /\ stdout = <<>>
    /\ remote = <<>>
    /\ disk = NoFile
    /\ server = <<NewProject("QA feedback", QaLabelConfig)>>
    /\ project = 1
    /\ response = NoResponse
    /\ transformed_dialogues = <<>>
    /\ unique_intents = {}
    /\ sorted_unique_intents = <<>>
    /\ firstRun = NoFirstRun
    /\ bound = {}
    /\ parsed_lines = <<>>
    /\ movie_conversations = <<>>
    /\ pid = 0
    /\ p2id = 0
    /\ tasks = <<>>
    /\ log = <<>>
    /\ wentBack = FALSE
    /\ ner_completion = NoCompletion
    /\ json_data = NoDocument
    /\ classes = NoClasses
    /\ completions = NoCompletions
    /\ api_requests = <<>>
    /\ vectordb = DocEntries
    /\ chatbot = NoChatbot
    /\ qa_turns = <<>>
    /\ extraction = NoExtraction
    /\ config_ini = NoConfig
    /\ scraped = <<>>

\* python chatbot.py --project_id N: the process loads the persisted vectors.
StartChatbot ==
    /\ nb = "qa"
    /\ ~chatbot.running
    /\ chatbot.process < MaxStarts
    /\ chatbot' = [running |-> TRUE, process |-> chatbot.process + 1, index |-> vectordb]
    /\ UNCHANGED <<nb, pc, run, raised, disk, server, vectordb, qa_turns, extraction,
                   notQaVars>>

\* The chatbot process is stopped.
StopChatbot ==
    /\ nb = "qa"
    /\ chatbot.running
    /\ chatbot' = [chatbot EXCEPT !.running = FALSE, !.index = <<>>]
    /\ UNCHANGED <<nb, pc, run, raised, disk, server, vectordb, qa_turns, extraction,
                   notQaVars>>

\* A question in the chat interface: the chain retrieves from the loaded index,
\* generates the response, and the callback handler sends the prompt and the
\* response to the Label Studio project.
Ask ==
    /\ nb = "qa"
    /\ chatbot.running
    /\ Len(qa_turns) < MaxChats
    /\ \E question \in Questions, sent \in BOOLEAN :
          LET turn == [prompt |-> question, response |-> Response(question),
                       retrieved |-> Retrieve(chatbot.index, question),
                       process |-> chatbot.process]
          IN  /\ qa_turns' = Completed(qa_turns, turn, sent)
              /\ server' = IF sent
                           THEN CreateTask(server, project,
                                           [prompt |-> question, response |-> Response(question)])
                           ELSE server
              /\ raised' = IF sent THEN "none" ELSE "ConnectionError"
    /\ UNCHANGED <<nb, pc, run, disk, vectordb, chatbot, extraction, notQaVars>>

\* The rating an annotator gives a task in Label Studio.
Rating(choice) ==
    [result |-> <<[from_name |-> "rating", to_name |-> "response", type |-> "choices",
                   value |-> [choices |-> <<choice>>]]>>]

\* An annotator rates a task that has no rating yet.
Annotate ==
    /\ nb = "qa"
    /\ \E i \in 1..Len(server[project].tasks), choice \in {"Good", "Bad"} :
          /\ server[project].tasks[i].annotations = <<>>
          /\ server' = [server EXCEPT ![project].tasks[i].annotations = <<Rating(choice)>>]
    /\ UNCHANGED <<nb, pc, run, raised, disk, vectordb, chatbot, qa_turns, extraction,
                   notQaVars>>

\* The tasks of the project are exported from Label Studio as a JSON file.
Export ==
    /\ nb = "qa"
    /\ server[project].tasks # <<>>
    /\ disk # FileOf(server[project].tasks)
    /\ disk' = FileOf(server[project].tasks)
    /\ UNCHANGED <<nb, pc, run, raised, server, vectordb, chatbot, qa_turns, extraction,
                   notQaVars>>

\* Mutant: every annotated example is taken, whatever its rating.
IsAnnotated(task) == task.annotations # <<>>

\* The example is labeled 'good': one of its annotations has the choice Good.
IsGood(task) ==
    \E i \in 1..Len(task.annotations) :
        \E j \in 1..Len(task.annotations[i].result) :
            "Good" \in Range(task.annotations[i].result[j].value.choices)

\* The examples of the file that are labeled 'good', as entries, in file order.
RECURSIVE ExtractGood(_, _)
ExtractGood(examples, added) ==
    IF examples = <<>> THEN <<>>
    ELSE (IF IsGood(Head(examples))
          THEN <<Entry("example", Head(examples).data.prompt, Head(examples).data.response, added)>>
          ELSE <<>>)
         \o ExtractGood(Tail(examples), added)

\* python extract_good_examples.py --json_path FILE --persist_dir DIR: the good
\* examples are added to the existing vector database.
ExtractGoodExamples ==
    /\ nb = "qa"
    /\ disk.exists
    /\ ~extraction.done
    /\ vectordb' = vectordb \o ExtractGood(disk.lines, chatbot.process)
    /\ extraction' = [done |-> TRUE, before |-> vectordb, file |-> disk]
    /\ UNCHANGED <<nb, pc, run, raised, disk, server, chatbot, qa_turns, notQaVars>>

NextQA ==
    \/ StartChatbot
    \/ StopChatbot
    \/ Ask
    \/ Annotate
    \/ Export
    \/ ExtractGoodExamples

SpecQA == InitQA /\ [][NextQA]_vars

\* -------------------------------------------------- QA system: claims

\* C13: every QA operation that has completed has its prompt and response in
\* the Label Studio project, one task per operation, in order.
C13_EveryOperationSent ==
    nb = "qa" =>
        /\ Len(server[project].tasks) = Len(qa_turns)
        /\ \A i \in 1..Len(qa_turns) :
              server[project].tasks[i].data =
                  [prompt |-> qa_turns[i].prompt, response |-> qa_turns[i].response]

\* C13's case: an operation has completed with its task in the project, and
\* the send of the next one has failed.
C13_Witness ==
    /\ nb = "qa"
    /\ Len(qa_turns) = 1
    /\ Len(server[project].tasks) = 1
    /\ raised = "ConnectionError"

\* The examples of the exported file whose rating is Good.
RatedGood(file) ==
    SelectSeq(file.lines, LAMBDA task : /\ task.annotations # <<>>
                                        /\ task.annotations[1].result[1].value.choices = <<"Good">>)

\* C14: after extract_good_examples the database holds the entries it held
\* before, followed by one entry for each example of the file rated Good, and
\* no entry for an example rated otherwise or not rated.
C14_OnlyGoodAdded ==
    (nb = "qa" /\ extraction.done) =>
        LET before == extraction.before
            good == RatedGood(extraction.file)
        IN  /\ Len(vectordb) = Len(before) + Len(good)
            /\ SubSeq(vectordb, 1, Len(before)) = before
            /\ \A k \in 1..Len(good) :
                  /\ vectordb[Len(before) + k].kind = "example"
                  /\ vectordb[Len(before) + k].prompt = good[k].data.prompt
                  /\ vectordb[Len(before) + k].response = good[k].data.response

\* C14's case: the file held an example rated Good, one rated Bad or not rated,
\* and one entry was added to the documentation chunks.
C14_Witness ==
    /\ nb = "qa" /\ extraction.done
    /\ Len(extraction.file.lines) = 2
    /\ Len(RatedGood(extraction.file)) = 1
    /\ Len(vectordb) = Len(DocEntries) + 1

MaxLogEntries == 2

\* Entries of the production log: the day, the user input, the model response.
LogEntries ==
    {[timestamp |-> "2024-11-11", user_input |-> "What is the capital of France?",
      model_response |-> "The capital of France is Paris."],
     [timestamp |-> "2024-11-11", user_input |-> "How do I change a flat tire?",
      model_response |-> "To change a flat tire, you'll need a jack."],
     [timestamp |-> "2024-11-12", user_input |-> "What is the capital of France?",
      model_response |-> "Paris."],
     [timestamp |-> "2024-11-13", user_input |-> "Who won the Nobel Prize in 2023?",
      model_response |-> ""]}

\* The fields for data import that the labeling config names.
ImportFields == {"question", "answer"}

\* scrape(): one dictionary per log entry, keyed by the import fields, with the
\* field "date" when sample_by_date is set.
RECURSIVE Scrape(_, _)
Scrape(logs, sample_by_date) ==
    IF logs = <<>> THEN <<>>
    ELSE <<IF sample_by_date
           THEN [question |-> Head(logs).user_input, answer |-> Head(logs).model_response,
                 date |-> Head(logs).timestamp]
           ELSE [question |-> Head(logs).user_input, answer |-> Head(logs).model_response]>>
         \o Scrape(Tail(logs), sample_by_date)

\* Mutant: the script loops, scraping again after every upload.
AfterUploadAgain == "scrape"

\* What follows the upload: the script ends; running it again is left to cron.
AfterUpload == "end"

InitMonitor ==
    /\ nb = "monitor"
    /\ pc = "scrape"
    /\ run = "running"
    /\ raised = "none"
    /\ runNo = 1
    /\ stdout = <<>>
    /\ remote \in SeqsUpTo(LogEntries, MaxLogEntries)
    /\ disk = NoFile
    /\ server = <<NewProject("Model monitoring", <<>>)>>
    /\ project = 1
    /\ response = NoResponse
    /\ transformed_dialogues = <<>>
    /\ unique_intents = {}
    /\ sorted_unique_intents = <<>>
    /\ firstRun = NoFirstRun
    /\ bound = {}
    /\ parsed_lines = <<>>
    /\ movie_conversations = <<>>
    /\ pid = 0
    /\ p2id = 0
    /\ tasks = <<>>
    /\ log = <<>>
    /\ wentBack = FALSE
    /\ ner_completion = NoCompletion
    /\ json_data = NoDocument
    /\ classes = NoClasses
    /\ completions = NoCompletions
    /\ api_requests = <<>>
    /\ vectordb = <<>>
    /\ chatbot = NoChatbot
    /\ qa_turns = <<>>
    /\ extraction = NoExtraction
    /\ config_ini \in [sample_by_date : BOOLEAN]
    /\ scraped = <<>>

\* The scrape of the invocation.
MonitorScrape ==
    /\ nb = "monitor" /\ run = "running" /\ pc = "scrape"
    /\ scraped' = Scrape(remote, config_ini.sample_by_date)
    /\ log' = Append(log, [cell |-> "scrape", exc |-> "none"])
    /\ Goto("upload")
    /\ UNCHANGED <<nb, remote, server, config_ini, notMonitorVars>>

\* The upload of what was scraped to the Label Studio project; a failed call raises.
MonitorUpload ==
    /\ nb = "monitor" /\ run = "running" /\ pc = "upload"
    /\ \/ /\ server' = ImportTasks(server, project, scraped)
          /\ log' = Append(log, [cell |-> "upload", exc |-> "none"])
          /\ pc' = AfterUpload
          /\ run' = IF AfterUpload = "end" THEN "done" ELSE "running"
          /\ raised' = raised
       \/ /\ Raise("ApiError")
          /\ log' = Append(log, [cell |-> "upload", exc |-> "ApiError"])
          /\ server' = server
    /\ UNCHANGED <<nb, remote, config_ini, scraped, notMonitorVars>>

NextMonitor ==
    \/ MonitorScrape
    \/ MonitorUpload

SpecMonitor == InitMonitor /\ [][NextMonitor]_vars

\* ------------------------------------------------ model monitoring: claims

\* C16: an invocation scrapes once, then uploads once, then ends; what scrape()
\* returned are dictionaries keyed by the import fields, each with a 'date'
\* whenever sample_by_date is TRUE.
C16_OneScrapeOneUpload ==
    nb = "monitor" =>
        /\ Len(log) <= 2
        /\ Len(log) >= 1 => log[1].cell = "scrape"
        /\ Len(log) = 2 => log[2].cell = "upload"
        /\ (Len(log) = 2 /\ raised = "none") => (run = "done" /\ pc = "end")
        /\ run = "done" => Len(log) = 2
        /\ \A i \in 1..Len(scraped) :
              /\ ImportFields \subseteq DOMAIN scraped[i]
              /\ DOMAIN scraped[i] \subseteq ImportFields \cup {"date"}
              /\ config_ini.sample_by_date => "date" \in DOMAIN scraped[i]

\* C16's case: with sample_by_date set, two entries were scraped and uploaded,
\* and the invocation has ended.
C16_Witness ==
    /\ nb = "monitor" /\ run = "done"
    /\ config_ini.sample_by_date
    /\ Len(scraped) = 2
    /\ Len(server[project].tasks) = 2
    /\ server[project].tasks[1].data.date # server[project].tasks[2].data.date

\* ------------------------- structured outputs: the correction pass, claims

\* The entity text occurs in the text at the 0-based position pos, and somewhere.
OccursAt(entity, text, pos) ==
    /\ pos + Len(entity) <= Len(text)
    /\ \A k \in 1..Len(entity) : text[pos + k] = entity[k]
Occurs(entity, text) == \E pos \in 0..Len(text) : OccursAt(entity, text, pos)

\* The positions of the result items of a document: prediction i, item j.
ItemPositions(document) ==
    {<<i, j>> \in (1..Len(document.predictions)) \X (1..2) :
        j <= Len(document.predictions[i].result)}

\* The item the model returned at a position, and the item after the pass.
Returned(at) == ner_completion.content.predictions[at[1]].result[at[2]]
Corrected(at) == json_data.predictions[at[1]].result[at[2]]

\* C17: an item whose entity text does not occur in data.text keeps the start
\* and end the model returned, no error is raised, and the item is in the
\* document that is saved.
C17_UnmatchedKeepsOffsets ==
    NerCorrected =>
        /\ raised = "none"
        /\ ItemPositions(json_data) = ItemPositions(ner_completion.content)
        /\ \A at \in ItemPositions(ner_completion.content) :
              ~Occurs(Returned(at).value.text, json_data.data.text) =>
                  /\ Corrected(at).value.start = Returned(at).value.start
                  /\ Corrected(at).value.end = Returned(at).value.end
                  /\ pc = "end" =>
                        /\ disk.exists
                        /\ disk.lines[1].predictions[at[1]].result[at[2]] = Returned(at)

\* C17's case: the document was saved with an item whose text is not in
\* data.text, at the offsets 3 and 5 the model gave it.
C17_Witness ==
    /\ nb = "ner" /\ pc = "end"
    /\ \E at \in ItemPositions(json_data) :
          /\ ~Occurs(Corrected(at).value.text, json_data.data.text)
          /\ Corrected(at).value.start = 3 /\ Corrected(at).value.end = 5
          /\ disk.lines[1].predictions[at[1]].result[at[2]] = Corrected(at)

\* C18: an item whose entity text occurs in data.text gets as start the index of
\* the leftmost occurrence and as end start plus the length of the text; two
\* such items with the same text have the same span.
C18_LeftmostOccurrence ==
    NerCorrected =>
        /\ \A at \in ItemPositions(json_data) :
              LET value == Corrected(at).value
              IN  Occurs(value.text, json_data.data.text) =>
                      /\ OccursAt(value.text, json_data.data.text, value.start)
                      /\ \A pos \in 0..Len(json_data.data.text) :
                            OccursAt(value.text, json_data.data.text, pos) => value.start <= pos
                      /\ value.end = value.start + Len(value.text)
        /\ \A at, other \in ItemPositions(json_data) :
              (/\ Corrected(at).value.text = Corrected(other).value.text
               /\ Occurs(Corrected(at).value.text, json_data.data.text)) =>
                  /\ Corrected(at).value.start = Corrected(other).value.start
                  /\ Corrected(at).value.end = Corrected(other).value.end

\* C18's case: two items with the text "." and different offsets from the
\* model, in a text whose only "." is its second character.
C18_Witness ==
    /\ NerCorrected
    /\ json_data.data.text = <<"a", ".">>
    /\ \E at, other \in ItemPositions(json_data) :
          /\ at # other
          /\ Returned(at).value.text = <<".">> /\ Returned(other).value.text = <<".">>
          /\ Returned(at).value.start # Returned(other).value.start
          /\ Corrected(at).value.start = 1 /\ Corrected(other).value.start = 1

\* C19: but for the start and end of the items, the document after the pass is
\* the document the model returned: the same data.text, the same predictions in
\* the same order with the same model_version, and in each the same items in
\* the same order with the same id, from_name, to_name, type, score, text, labels.
C19_OnlyOffsetsChange ==
    NerCorrected =>
        /\ json_data.data = ner_completion.content.data
        /\ Len(json_data.predictions) = Len(ner_completion.content.predictions)
        /\ \A i \in 1..Len(json_data.predictions) :
              LET after == json_data.predictions[i]
                  before == ner_completion.content.predictions[i]
              IN  /\ after.model_version = before.model_version
                  /\ DOMAIN after = DOMAIN before
                  /\ Len(after.result) = Len(before.result)
                  /\ \A j \in 1..Len(after.result) :
                        [after.result[j] EXCEPT !.value.start = before.result[j].value.start,
                                                !.value.end = before.result[j].value.end]
                            = before.result[j]

\* C19's case: a prediction of two items, both moved by the pass.
C19_Witness ==
    /\ NerCorrected
    /\ Len(json_data.predictions) = 1
    /\ Len(json_data.predictions[1].result) = 2
    /\ \A j \in 1..2 :
          json_data.predictions[1].result[j].value.start
              # ner_completion.content.predictions[1].result[j].value.start

\* C20: a second pass over the output of the pass changes nothing.
C20_PassIdempotent == NerCorrected => CorrectOffsets(json_data) = json_data

\* C20's case: the first pass moved an item to an occurrence that is not at the
\* start of the text, and left another where the model put it.
C20_Witness ==
    /\ NerCorrected
    /\ \E at, other \in ItemPositions(json_data) :
          /\ Corrected(at).value.start = 1
          /\ Returned(at).value.start # 1
          /\ Corrected(other) = Returned(other)
          /\ ~Occurs(Corrected(other).value.text, json_data.data.text)

====
